---- MODULE Spec2Model ----
(***************************************************************************)
(* SD/MMC block-storage driver of the Longan Nano firmware.                *)
(*                                                                         *)
(* Part I models lib/sdcard/sd_card.cpp (the polling driver): the task     *)
(* context runs sd_init / sd_read_blocks / sd_write_blocks / sd_ioctl one  *)
(* step at a time, the 1 ms TIMER3 interrupt preempts it between any two   *)
(* steps, and the card answers every byte exchange nondeterministically.   *)
(* A task step is cut wherever the code reads or writes a timeout counter; *)
(* the byte exchanges between two such points touch no shared state and    *)
(* are taken in one step.                                                  *)
(*                                                                         *)
(* Part II models lib/sdcard/sd_spi_hal.cpp (the DMA engine set-up, the    *)
(* shared status cell and the completion interrupt handlers) together with *)
(* the asynchronous block-I/O layer that sits on top of it.                *)
(***************************************************************************)
EXTENDS Integers, Sequences, FiniteSets, TLC

(***************************************************************************)
(* Program constants                                                       *)
(***************************************************************************)
STA_NOINIT  == 1
STA_NODISK  == 2
STA_PROTECT == 4

RES_OK     == 0
RES_ERROR  == 1
RES_WRPRT  == 2
RES_NOTRDY == 3
RES_PARERR == 4

CTRL_SYNC        == 0
GET_SECTOR_COUNT == 1
GET_SECTOR_SIZE  == 2
GET_BLOCK_SIZE   == 3

CMD0   == 0
CMD1   == 1
CMD8   == 8
CMD9   == 9
CMD12  == 12
CMD16  == 16
CMD17  == 17
CMD18  == 18
ACMD23 == 151
CMD24  == 24
CMD25  == 25
CMD55  == 55
CMD58  == 58
ACMD41 == 169

CT_MMC   == 1
CT_SD1   == 2
CT_SD2   == 4
CT_SDC   == 6
CT_BLOCK == 8

InitTimeoutMs  == 1000   \* Timer1 = 1000 in sd_init
ReadyTimeoutMs == 500    \* wait_ready(500)
TokenTimeoutMs == 200    \* Timer1 = 200 in rcvr_datablock
RespAttempts   == 10     \* n = 10 in send_cmd
InitClocks     == 10     \* for (n = 10; n; n--) xchg_spi(0xFF)
BlockLen       == 512
CrcLen         == 2

TOKEN_SINGLE == 254      \* 0xFE
TOKEN_MULTI  == 252      \* 0xFC
TOKEN_STOP   == 253      \* 0xFD
FILL         == 255      \* 0xFF
HCS          == 1073741824   \* 1UL << 30
IF_COND      == 426          \* 0x1AA
SectorWrap   == 8388608      \* 2^32 / 512: where a uint32_t sector * 512 wraps

(***************************************************************************)
(* Bounds of the model                                                     *)
(***************************************************************************)
MaxTicks == 1    \* single 1 ms ticks explored one by one in a behaviour
MaxCount == 2    \* largest block count of a request

(***************************************************************************)
(* Bytes the card may put on the bus                                       *)
(***************************************************************************)
R1Bytes     == {0, 1, 5, 255}          \* ready, idle, illegal command, none
RespDelays  == {0, 9, 10}              \* filler bytes before the R1 byte
ReadyBytes  == {0, 255}                \* busy, ready
TokenBytes  == {255, 254, 9}           \* filler, start token, error token
DataResps   == {5, 229, 11, 13, 255}   \* accepted (x2), CRC error, write error, none
Trailers    == {<<0, 0, 1, 170>>, <<0, 0, 0, 170>>, <<0, 0, 1, 0>>}
OcrFirst    == {192, 128, 64}          \* CCS and power-up bits: both, power-up, CCS
Sectors     == {1, 8388609}
IoctlCodes  == {CTRL_SYNC, GET_SECTOR_COUNT, GET_SECTOR_SIZE, GET_BLOCK_SIZE, 9}

\* A CSD register with the bytes the driver decodes; the others are 0.
MkCsd(b0, b5, b6, b7, b8, b9, b10, b11, b13) ==
    <<b0, 0, 0, 0, 0, b5, b6, b7, b8, b9, b10, b11, 0, b13, 0, 0>>

\* CSD registers: version 1 with C_SIZE 0, 0x3B37 (and stray bits in byte 7)
\* and 0x3FFFFF; version 0 of a 2 GB card; the same with version field 2;
\* an all-zero register with version field 3.
Csds == {MkCsd(64, 0, 0, 0, 0, 0, 0, 0, 0),
         MkCsd(64, 0, 0, 128, 59, 55, 0, 0, 0),
         MkCsd(64, 0, 0, 63, 255, 255, 0, 0, 0),
         MkCsd(0, 90, 3, 255, 192, 3, 128, 128, 64),
         MkCsd(128, 90, 3, 255, 192, 3, 128, 128, 64),
         MkCsd(192, 0, 0, 0, 0, 0, 0, 0, 0)}

(***************************************************************************)
(* Bit helpers on unsigned values                                          *)
(***************************************************************************)
Bit(x, k)      == (x \div (2 ^ k)) % 2
HasFlag(x, f)  == (x \div f) % 2 = 1          \* f a single-bit mask
ClearFlag(x, f) == IF HasFlag(x, f) THEN x - f ELSE x
Min(a, b)      == IF a < b THEN a ELSE b

VARIABLES
    Stat,        \* volatile DSTATUS Stat
    Timer1,      \* volatile UINT Timer1
    Timer2,      \* volatile UINT Timer2
    CardType,    \* BYTE CardType
    cs,          \* chip-select line: "high" (deasserted) or "low"
    fclk,        \* SPI clock divider: "slow" or "fast"
    pc,          \* position of the task context
    stack,       \* pending send_cmd calls: return position and caller's cmd/arg
    loc,         \* local variables of the running operation
    op,          \* the operation last called
    ret,         \* its return value (-1 while it runs)
    obs,         \* what went over the bus during the operation last called
    ticks,       \* single ticks taken so far
    g_dma_status, \* volatile HalDmaStatus g_dma_status
    chan,        \* DMA0 channel registers: chan.tx (channel 4), chan.rx (channel 3)
    spi_dma,     \* SPI DMA requests enabled: subset of {"TX", "RX"}
    rbne,        \* SPI receive buffer not empty
    trans,       \* SPI frame in transmission (SPI_FLAG_TRANS)
    isr,         \* position of a DMA handler that has not returned yet
    Timeout_ms,  \* volatile uint32_t Timeout_ms of the transport
    card,        \* the card's blocks by address, where block contents are followed
    test,        \* SdCardTest::run_read_write_test: its position and buffers
    msc,         \* the mass-storage layer: media flag, sense list, last status
    enc,         \* the rotary encoder: counter, flags, position of get_rotation
    dm,          \* DisplayManager: buffer indices, tasks, position of the draw
    bbb,         \* the bulk-only transport of the mass-storage class
    ctx,         \* the pending asynchronous transfer context
    dobs         \* the DMA-path call last made and what it did

\* The encoder, the display manager and the bulk-only transport: untouched
\* by the card driver.
appVars == <<enc, dm, bbb>>

dmaVars == <<g_dma_status, chan, spi_dma, rbne, trans, isr, Timeout_ms, card, test,
            msc, appVars, ctx, dobs>>

vars == <<Stat, Timer1, Timer2, CardType, cs, fclk, pc, stack, loc, op, ret, obs, ticks,
          g_dma_status, chan, spi_dma, rbne, trans, isr, Timeout_ms, card, test,
          msc, enc, dm, bbb, ctx, dobs>>

LocInit == [cmd |-> 0, arg |-> 0, res |-> 0, ty |-> 0, icmd |-> 0,
            count |-> 0, buff |-> 0, addr |-> 0, multi |-> FALSE,
            token |-> 0, ioc |-> 0, ires |-> 0]

ObsInit == [bus |-> FALSE,
            r0 |-> -1, r8 |-> -1, r41 |-> -1, r58 |-> -1, r16 |-> -1,
            trailer |-> <<>>, ocr0 |-> -1, expired |-> FALSE,
            reqCount |-> 0, blocks |-> 0, dataBytes |-> 0, crcBytes |-> 0,
            accepted |-> 0, failed |-> FALSE, afterFail |-> 0, stops |-> 0,
            prevType |-> 0, frames |-> <<>>, dummies |-> 0,
            sector |-> 0, csd |-> <<>>, stored |-> [bytes |-> 0, hi |-> 0, lo |-> 0]]

\* A channel after configure_dma: dma_deinit, then dma_init with memory
\* increase enabled; no address, no count, not enabled, no interrupt.
ChannelReset == [en |-> FALSE, cnt |-> 0, mem |-> "none", inc |-> TRUE,
                 ftfie |-> FALSE, ftf |-> FALSE]

\* No asynchronous transfer pending.
CtxNone == [live |-> FALSE, dir |-> "none", multi |-> FALSE]

DobsInit == [call |-> "none", ret |-> -1, seen |-> "none",
             stopToken |-> 0, cmd12 |-> 0]

\* The self-test not running and no block contents followed.
TestIdle == [step |-> "none", sector |-> 0, before |-> <<>>, original |-> <<>>,
             pattern |-> <<>>, readback |-> <<>>, result |-> FALSE,
             restores |-> 0]

\* usb_types.h: one entry of the sense list, and the list before any sense.
NoSense == [key |-> 0, ASC |-> 0]

\* The mass-storage layer before main() has set it up: is_media_present =
\* false (usbd_msc_mem.cpp line 40), an empty sense list, no request served.
MscInit == [step |-> "boot", is_media_present |-> FALSE,
            scsi_sense |-> [i \in 0 .. 3 |-> NoSense], scsi_sense_tail |-> 0,
            request |-> "none", status |-> 0]

\* rotary_encoder.cpp lines 22-24: the encoder's cells at start, interrupts
\* enabled, get_rotation not running; total and net are the sum of the
\* values get_rotation returned and the net steps the ISR counted.
EncInit == [rotation_count |-> 0, key_pressed_flag |-> FALSE,
            last_interrupt_time |-> 0, ie |-> TRUE, pc |-> "idle", count |-> 0,
            total |-> 0, net |-> 0, isrs |-> 0]

\* DisplayManager after construction: both buffers free, no transfer
\* announced, nothing to draw.
DmInit == [m_usb_buffer_idx |-> 0, m_dma_buffer_idx |-> 0, m_task_is_ready |-> FALSE,
           m_bytes_received |-> 0, m_current_rx_task |-> "none", m_draw_task |-> "none",
           pc |-> "idle", packets |-> 0, clobbered |-> FALSE]

\* usb_types.h lines 211-226 in the zero-initialised singleton: the
\* bulk-only transport before _msc_init; cbw is the wrapper received last,
\* ep_in and ep_out the two bulk endpoints; the fields from rc on record
\* what the command in progress did.
NoCbw == [ok |-> FALSE, lun |-> 0, cblen |-> 0, flags |-> 0, dlen |-> 0,
          cmd |-> "none", lba |-> 0, n |-> 0]

BbbInit == [step |-> "boot", bbb_state |-> "BBB_IDLE", bbb_status |-> "NORMAL",
            bbb_cbw |-> NoCbw, bbb_datalen |-> 0, scsi_blk_size |-> 0,
            scsi_blk_nbr |-> 0, scsi_blk_addr |-> 0, scsi_blk_len |-> 0,
            ep_in |-> [stalled |-> FALSE, tx |-> "none"],
            ep_out |-> [stalled |-> FALSE, rx |-> "none"],
            rc |-> 0, cmds |-> 0, csw |-> "none", failed |-> FALSE,
            called |-> FALSE, sector |-> 0, before |-> 0, done |-> 0,
            oob |-> FALSE, cleared |-> FALSE, req_ret |-> "none"]

TransportInit ==
    /\ msc = MscInit
    /\ enc = EncInit
    /\ dm = DmInit
    /\ bbb = BbbInit
    /\ g_dma_status = "IDLE"
    /\ chan = [tx |-> ChannelReset, rx |-> ChannelReset]
    /\ spi_dma = {}
    /\ rbne = FALSE
    /\ trans = FALSE
    /\ isr = "none"
    /\ Timeout_ms = 0
    /\ ctx = CtxNone
    /\ dobs = DobsInit

DmaInit ==
    /\ TransportInit
    /\ card = <<>>
    /\ test = TestIdle

Init ==
    /\ DmaInit
    /\ Stat = STA_NOINIT
    /\ Timer1 = 0
    /\ Timer2 = 0
    /\ CardType = 0
    /\ cs = "high"
    /\ fclk = "slow"
    /\ pc = "idle"
    /\ stack = <<>>
    /\ loc = LocInit
    /\ op = "none"
    /\ ret = -1
    /\ obs = ObsInit
    /\ ticks = 0

\* The handler decrementing a counter without testing it for zero.
TickCounterBlind(t) == t - 1

(***************************************************************************)
(* TIMER3_IRQHandler: each counter is decremented unless it is zero.       *)
(***************************************************************************)
TickCounter(t) == IF t # 0 THEN t - 1 ELSE t

\* The handler's effect on a counter when it runs k times in a row:
\* TickTimes(t, 0) = t and TickTimes(t, k + 1) = TickCounter(TickTimes(t, k)).
TickTimes(t, k) == IF k >= t THEN 0 ELSE t - k

\* The interrupt between two task steps.
TIMER3_IRQHandler ==
    /\ ticks < MaxTicks
    /\ Timer1 + Timer2 > 0
    /\ Timer1' = TickCounter(Timer1)
    /\ Timer2' = TickCounter(Timer2)
    /\ ticks' = ticks + 1
    /\ UNCHANGED <<Stat, CardType, cs, fclk, pc, stack, loc, op, ret, obs>>
    /\ UNCHANGED dmaVars

\* The task context held up until the next running counter expires: the
\* handler runs that many times in a row.
NextExpiry == IF Timer1 = 0 THEN Timer2
              ELSE IF Timer2 = 0 THEN Timer1 ELSE Min(Timer1, Timer2)

TickUntilExpiry ==
    /\ NextExpiry > 0
    /\ Timer1' = TickTimes(Timer1, NextExpiry)
    /\ Timer2' = TickTimes(Timer2, NextExpiry)
    /\ UNCHANGED <<Stat, CardType, cs, fclk, pc, stack, loc, op, ret, obs, ticks>>
    /\ UNCHANGED dmaVars

(***************************************************************************)
(* Helpers for the task context                                            *)
(***************************************************************************)
TaskIs(l) == pc = l /\ isr = "none"

\* Variables no task step of the polling driver writes.
TaskFrame == UNCHANGED ticks /\ UNCHANGED dmaVars

\* A call of send_cmd(c, a) from position pc, returning to `back`; l is the
\* caller's locals at the call.
Call(c, a, back, l) ==
    /\ stack' = <<[pc |-> back, cmd |-> l.cmd, arg |-> l.arg]>> \o stack
    /\ loc' = [l EXCEPT !.cmd = c, !.arg = a]
    /\ pc' = "send_cmd"

\* send_cmd returns r to its caller.
Return(r) ==
    /\ pc' = Head(stack).pc
    /\ stack' = Tail(stack)
    /\ loc' = [loc EXCEPT !.res = r, !.cmd = Head(stack).cmd, !.arg = Head(stack).arg]

UsedBus(o) == [o EXCEPT !.bus = TRUE]

\* Deselect without CS_HIGH().
DeselectKeepLow == "low"

\* deselect(): CS_HIGH() and one dummy clock; the level it leaves on the line.
Deselect == "high"

(***************************************************************************)
(* wait_ready: one pass of  do d = xchg_spi(0xFF); while (d != 0xFF &&     *)
(* Timer2);  and its result  (d == 0xFF) ? 1 : 0.                          *)
(***************************************************************************)
WaitReady(d, t2) ==
    IF d # FILL /\ t2 # 0 THEN "again"
    ELSE IF d = FILL THEN "ready" ELSE "timeout"

(***************************************************************************)
(* send_cmd                                                                *)
(***************************************************************************)
\* send_cmd going on to the command whatever CMD55 was answered.
AppCmdAbortNever(res) == FALSE

IsAppCmd(cmd)    == Bit(cmd, 7) = 1            \* cmd & 0x80
StripApp(cmd)    == cmd % 128                  \* cmd &= 0x7F
AppCmdAbort(res) == res > 1                    \* if (res > 1) return res
NeedsSelect(cmd) == cmd # CMD12                \* if (cmd != CMD12)

\* The CRC byte taken to be the filler for every command.
CrcByteFiller(cmd) == 1

\* Line 167: n = (cmd == CMD0) ? 0x95 : ((cmd == CMD8) ? 0x87 : 0x01).
CrcByte(cmd) == IF cmd = CMD0 THEN 149 ELSE IF cmd = CMD8 THEN 135 ELSE 1

\* The six bytes of a command frame.
Frame(cmd, arg) ==
    << (IF Bit(cmd, 6) = 1 THEN cmd ELSE cmd + 64),
       (arg \div 16777216) % 256, (arg \div 65536) % 256,
       (arg \div 256) % 256, arg % 256, CrcByte(cmd) >>

\* The response poll:  n = 10; do res = xchg_spi(0xFF); while ((res & 0x80)
\* && --n);  against a card that sends `delay` filler bytes and then r.
RECURSIVE PollResp(_, _, _)
PollResp(delay, r, n) ==
    LET res == IF RespAttempts - n < delay THEN FILL ELSE r
    IN  IF Bit(res, 7) = 1 /\ n - 1 # 0 THEN PollResp(delay, r, n - 1) ELSE res

\* Lines 160-163: deselect(); _select() up to the first pass of wait_ready,
\* or straight to the frame for CMD12.
SelectOrFrame(o) ==
    IF NeedsSelect(loc.cmd)
    THEN /\ cs' = "low"
         /\ Timer2' = ReadyTimeoutMs
         /\ pc' = "sc_wait"
         /\ obs' = UsedBus(o)
         /\ UNCHANGED <<stack, loc>>
    ELSE /\ pc' = "sc_frame"
         /\ obs' = o
         /\ UNCHANGED <<cs, Timer2, stack, loc>>

\* The frames on record at the entry of send_cmd: those of the call so far
\* when CMD55 is sent on behalf of an application command, none otherwise.
FramesAtEntry(o) ==
    IF stack # <<>> /\ Head(stack).pc = "sc_app" THEN o ELSE [o EXCEPT !.frames = <<>>]

SendCmdEntry ==
    /\ TaskIs("send_cmd")
    /\ IF IsAppCmd(loc.cmd)
       THEN /\ stack' = <<[pc |-> "sc_app", cmd |-> StripApp(loc.cmd), arg |-> loc.arg]>>
                        \o stack
            /\ loc' = [loc EXCEPT !.cmd = CMD55, !.arg = 0]
            /\ obs' = FramesAtEntry(obs)
            /\ UNCHANGED <<pc, cs, Timer2>>
       ELSE SelectOrFrame(FramesAtEntry(obs))
    /\ UNCHANGED <<Stat, Timer1, CardType, fclk, op, ret>>
    /\ TaskFrame

SendCmdApp ==
    /\ TaskIs("sc_app")
    /\ IF AppCmdAbort(loc.res)
       THEN /\ Return(loc.res)
            /\ UNCHANGED <<cs, Timer2, obs>>
       ELSE SelectOrFrame(obs)
    /\ UNCHANGED <<Stat, Timer1, CardType, fclk, op, ret>>
    /\ TaskFrame

SendCmdWait ==
    /\ TaskIs("sc_wait")
    /\ \E d \in ReadyBytes :
         LET w == WaitReady(d, Timer2)
         IN  \/ /\ w = "again"
                /\ UNCHANGED <<pc, stack, loc, cs>>
             \/ /\ w = "ready"
                /\ pc' = "sc_frame"
                /\ UNCHANGED <<stack, loc, cs>>
             \/ /\ w = "timeout"          \* _select: deselect(); return 0
                /\ cs' = Deselect
                /\ Return(FILL)
    /\ UNCHANGED <<Stat, Timer1, Timer2, CardType, fclk, op, ret, obs>>
    /\ TaskFrame

SendCmdFrame ==
    /\ TaskIs("sc_frame")
    /\ \E r \in R1Bytes, d \in RespDelays : Return(PollResp(d, r, RespAttempts))
    /\ obs' = [UsedBus(obs) EXCEPT !.frames = Append(@, Frame(loc.cmd, loc.arg))]
    /\ UNCHANGED <<Stat, Timer1, Timer2, CardType, cs, fclk, op, ret>>
    /\ TaskFrame

(***************************************************************************)
(* sd_init                                                                 *)
(***************************************************************************)
\* Line 226: the R7 trailer echoes the voltage window and the check pattern.
TrailerOk(ocr) == ocr[3] = 1 /\ ocr[4] = 170

\* OcrCardType with the mask 0x80 in place of 0x40.
OcrCardTypeMask80(ocr0) == IF Bit(ocr0, 7) = 1 THEN CT_SD2 + CT_BLOCK ELSE CT_SD2

\* Line 230: ty = (ocr[0] & 0x40) ? CT_SD2 | CT_BLOCK : CT_SD2.
OcrCardType(ocr0) == IF Bit(ocr0, 6) = 1 THEN CT_SD2 + CT_BLOCK ELSE CT_SD2

\* LegacyType with the two classes exchanged.
LegacyTypeSwapped(res) == IF res <= 1 THEN CT_MMC ELSE CT_SD1

\* Lines 234-235: the legacy probe picks the type and the retry command.
LegacyType(res)  == IF res <= 1 THEN CT_SD1 ELSE CT_MMC
LegacyRetry(res) == IF res <= 1 THEN ACMD41 ELSE CMD1

\* InitStatus without the assignment of STA_NOINIT on failure.
InitStatusKeep(stat, ty) == IF ty # 0 THEN ClearFlag(stat, STA_NOINIT) ELSE stat

\* Lines 243-250: the status sd_init leaves behind for card type ty.
InitStatus(stat, ty) == IF ty # 0 THEN ClearFlag(stat, STA_NOINIT) ELSE STA_NOINIT

\* Negotiating without the test of the counter.
NegotiatingForever(t1) == TRUE

\* Lines 227, 228, 236 and 237: the test of the negotiation counter.
Negotiating(t1) == t1 # 0

\* Line 216: the early return when no medium is flagged.
NoDisk(stat) == HasFlag(stat, STA_NODISK)

\* The frame of a task step inside sd_init that only moves the task.
InitOnlyTask == UNCHANGED <<Stat, Timer1, Timer2, CardType, cs, fclk, op, ret>> /\ TaskFrame

\* The power-up loop stopping after its first exchange.
DummyClocksOnce(n, c) == IF n # 0 /\ c = "high" THEN 1 ELSE 0

RECURSIVE DummyClocks(_, _)
\* Line 219: for (n = 10; n; n--) xchg_spi(0xFF), with chip-select at level
\* c: the number of 0xFF bytes clocked out while chip-select is high.
DummyClocks(n, c) ==
    IF n = 0 THEN 0
    ELSE (IF c = "high" THEN 1 ELSE 0) + DummyClocks(n - 1, c)

\* Lines 193-222: pin and SPI set-up, CS high, the early return, the slow
\* clock, the dummy clocks and the call of send_cmd(CMD0, 0).
SdInit ==
    /\ TaskIs("idle")
    /\ op' = "init"
    /\ cs' = "high"
    /\ IF NoDisk(Stat)
       THEN /\ ret' = Stat
            /\ obs' = ObsInit
            /\ UNCHANGED <<pc, stack, loc, fclk>>
       ELSE /\ fclk' = "slow"
            /\ obs' = [ObsInit EXCEPT !.bus = TRUE, !.prevType = CardType,
                                      !.dummies = DummyClocks(InitClocks, cs')]
            /\ ret' = -1
            /\ Call(CMD0, 0, "init_cmd0", LocInit)
    /\ UNCHANGED <<Stat, Timer1, Timer2, CardType>>
    /\ TaskFrame

\* Lines 222-224: CMD0 answered; arm the negotiation counter, send CMD8.
InitCmd0 ==
    /\ TaskIs("init_cmd0")
    /\ obs' = [obs EXCEPT !.r0 = loc.res]
    /\ IF loc.res = 1
       THEN /\ Timer1' = InitTimeoutMs
            /\ Call(CMD8, IF_COND, "init_cmd8", loc)
       ELSE /\ pc' = "init_end"
            /\ UNCHANGED <<Timer1, stack, loc>>
    /\ UNCHANGED <<Stat, Timer2, CardType, cs, fclk, op, ret>>
    /\ TaskFrame

\* Lines 224-226 and 233-234: CMD8 answered; read the trailer, or probe
\* a legacy card with ACMD41(0).
InitCmd8 ==
    /\ TaskIs("init_cmd8")
    /\ IF loc.res = 1
       THEN \E ocr \in Trailers :
              /\ obs' = [obs EXCEPT !.r8 = loc.res, !.trailer = ocr]
              /\ pc' = IF TrailerOk(ocr) THEN "init_v2_loop" ELSE "init_end"
              /\ UNCHANGED <<stack, loc>>
       ELSE /\ obs' = [obs EXCEPT !.r8 = loc.res]
            /\ Call(ACMD41, 0, "init_probe", loc)
    /\ InitOnlyTask

\* Line 227: while (Timer1 && send_cmd(ACMD41, 1UL << 30)) - the test of
\* Timer1 and the call.
InitV2Loop ==
    /\ TaskIs("init_v2_loop")
    /\ IF Negotiating(Timer1)
       THEN /\ Call(ACMD41, HCS, "init_v2_res", loc)
            /\ UNCHANGED obs
       ELSE /\ pc' = "init_v2_ocr"
            /\ UNCHANGED <<stack, loc, obs>>
    /\ InitOnlyTask

\* The retry of line 227 arming the negotiation counter anew.
InitV2ResRearm ==
    /\ TaskIs("init_v2_res")
    /\ obs' = [obs EXCEPT !.r41 = loc.res]
    /\ pc' = IF loc.res # 0 THEN "init_v2_loop" ELSE "init_v2_ocr"
    /\ Timer1' = InitTimeoutMs
    /\ UNCHANGED <<stack, loc>>
    /\ UNCHANGED <<Stat, Timer2, CardType, cs, fclk, op, ret>>
    /\ TaskFrame

\* Line 227: the test of the value send_cmd returned.
InitV2Res ==
    /\ TaskIs("init_v2_res")
    /\ obs' = [obs EXCEPT !.r41 = loc.res]
    /\ pc' = IF loc.res # 0 THEN "init_v2_loop" ELSE "init_v2_ocr"
    /\ UNCHANGED <<stack, loc>>
    /\ InitOnlyTask

\* Line 228: if (Timer1 && send_cmd(CMD58, 0) == 0) - the test of Timer1
\* and the call.
InitV2Ocr ==
    /\ TaskIs("init_v2_ocr")
    /\ IF Negotiating(Timer1)
       THEN /\ Call(CMD58, 0, "init_v2_type", loc)
            /\ UNCHANGED obs
       ELSE /\ pc' = "init_end"
            /\ obs' = [obs EXCEPT !.expired = TRUE]
            /\ UNCHANGED <<stack, loc>>
    /\ InitOnlyTask

\* Lines 228-231: CMD58 answered; read the OCR and classify.
InitV2Type ==
    /\ TaskIs("init_v2_type")
    /\ IF loc.res = 0
       THEN \E o \in OcrFirst :
              /\ obs' = [obs EXCEPT !.r58 = loc.res, !.ocr0 = o]
              /\ loc' = [loc EXCEPT !.ty = OcrCardType(o)]
       ELSE /\ obs' = [obs EXCEPT !.r58 = loc.res]
            /\ UNCHANGED loc
    /\ pc' = "init_end"
    /\ UNCHANGED stack
    /\ InitOnlyTask

\* Lines 234-235: the probe answered; pick type and retry command.
InitProbe ==
    /\ TaskIs("init_probe")
    /\ loc' = [loc EXCEPT !.ty = LegacyType(loc.res), !.icmd = LegacyRetry(loc.res)]
    /\ pc' = "init_v1_loop"
    /\ UNCHANGED <<stack, obs>>
    /\ InitOnlyTask

\* Line 236: while (Timer1 && send_cmd(cmd, 0)) - the test of Timer1 and
\* the call.
InitV1Loop ==
    /\ TaskIs("init_v1_loop")
    /\ IF Negotiating(Timer1)
       THEN Call(loc.icmd, 0, "init_v1_res", loc)
       ELSE /\ pc' = "init_v1_len"
            /\ UNCHANGED <<stack, loc>>
    /\ UNCHANGED obs
    /\ InitOnlyTask

\* Line 236: the test of the value send_cmd returned.
InitV1Res ==
    /\ TaskIs("init_v1_res")
    /\ obs' = [obs EXCEPT !.r41 = loc.res]
    /\ pc' = IF loc.res # 0 THEN "init_v1_loop" ELSE "init_v1_len"
    /\ UNCHANGED <<stack, loc>>
    /\ InitOnlyTask

\* Line 237: if (!Timer1 || send_cmd(CMD16, 512) != 0) ty = 0 - the test
\* of Timer1 and the call.
InitV1Len ==
    /\ TaskIs("init_v1_len")
    /\ IF Negotiating(Timer1)
       THEN /\ Call(CMD16, BlockLen, "init_v1_type", loc)
            /\ UNCHANGED obs
       ELSE /\ loc' = [loc EXCEPT !.ty = 0]
            /\ obs' = [obs EXCEPT !.expired = TRUE]
            /\ pc' = "init_end"
            /\ UNCHANGED stack
    /\ InitOnlyTask

\* Line 237: CMD16 answered.
InitV1Type ==
    /\ TaskIs("init_v1_type")
    /\ obs' = [obs EXCEPT !.r16 = loc.res]
    /\ loc' = [loc EXCEPT !.ty = IF loc.res # 0 THEN 0 ELSE loc.ty]
    /\ pc' = "init_end"
    /\ UNCHANGED stack
    /\ InitOnlyTask

\* Lines 240-251: store the type, deselect, set clock and status, return.
\* InitEnd flagging a card it brought up as write-protected.
InitEndProtect ==
    /\ TaskIs("init_end")
    /\ CardType' = loc.ty
    /\ cs' = Deselect
    /\ fclk' = IF loc.ty # 0 THEN "fast" ELSE fclk
    /\ Stat' = IF loc.ty # 0 THEN STA_PROTECT ELSE STA_NOINIT
    /\ ret' = Stat'
    /\ pc' = "idle"
    /\ loc' = LocInit
    /\ obs' = UsedBus(obs)
    /\ UNCHANGED <<Timer1, Timer2, stack, op>>
    /\ TaskFrame

InitEnd ==
    /\ TaskIs("init_end")
    /\ CardType' = loc.ty
    /\ cs' = Deselect
    /\ fclk' = IF loc.ty # 0 THEN "fast" ELSE fclk
    /\ Stat' = InitStatus(Stat, loc.ty)
    /\ ret' = Stat'
    /\ pc' = "idle"
    /\ loc' = LocInit
    /\ obs' = UsedBus(obs)
    /\ UNCHANGED <<Timer1, Timer2, stack, op>>
    /\ TaskFrame

(***************************************************************************)
(* Block I/O: preconditions and addressing                                 *)
(***************************************************************************)
\* ReadGate with its two tests in the other order.
ReadGateStatusFirst(stat, count) ==
    IF HasFlag(stat, STA_NOINIT) THEN RES_NOTRDY
    ELSE IF count = 0 THEN RES_PARERR
    ELSE -1

\* Lines 259-260: the gate of sd_read_blocks; -1 lets the request through.
ReadGate(stat, count) ==
    IF count = 0 THEN RES_PARERR
    ELSE IF HasFlag(stat, STA_NOINIT) THEN RES_NOTRDY
    ELSE -1

\* Lines 282-284: the gate of sd_write_blocks.
WriteGate(stat, count) ==
    IF count = 0 THEN RES_PARERR
    ELSE IF HasFlag(stat, STA_NOINIT) THEN RES_NOTRDY
    ELSE IF HasFlag(stat, STA_PROTECT) THEN RES_WRPRT
    ELSE -1

\* Lines 262 and 286: if (!(CardType & CT_BLOCK)) sector *= 512, in uint32_t
\* arithmetic: the product wraps at 2^32, that is at sector 2^23.
CmdAddress(ct, sector) ==
    IF HasFlag(ct, CT_BLOCK) THEN sector ELSE (sector % SectorWrap) * BlockLen

\* Lines 278 and 303: return count ? RES_ERROR : RES_OK.
CountResult(count) == IF count # 0 THEN RES_ERROR ELSE RES_OK

\* A request refused at the gate returns at once.
Refuse(name, code, n) ==
    /\ op' = name
    /\ ret' = code
    /\ obs' = [ObsInit EXCEPT !.reqCount = n]
    /\ UNCHANGED <<Stat, Timer1, Timer2, CardType, cs, fclk, pc, stack, loc>>
    /\ TaskFrame

\* The frame of a task step of an I/O operation that only moves the task.
IoOnlyTask == UNCHANGED <<Stat, CardType, fclk, op, ret>> /\ TaskFrame

(***************************************************************************)
(* rcvr_datablock                                                          *)
(***************************************************************************)
\* Lines 129-131: one pass of  do token = xchg_spi(0xFF); while ((token ==
\* 0xFF) && Timer1).
TokenWait(token, t1) == IF token = FILL /\ t1 # 0 THEN "again" ELSE "done"

\* TokenOk taking any byte other than the filler for the token.
TokenOkAnyByte(token) == token # FILL

\* Line 133: if (token != 0xFE) return 0.
TokenOk(token) == token = TOKEN_SINGLE

\* Lines 133-137: the data bytes and the CRC bytes read after `token`.
RcvrData(token, btr) == IF TokenOk(token) THEN btr ELSE 0
RcvrCrc(token)       == IF TokenOk(token) THEN CrcLen ELSE 0

\* What the bus saw of one rcvr_datablock that ended with `token` and then
\* read `data` data bytes and `crc` CRC bytes.
ObsRcvr(o, token, data, crc) ==
    [o EXCEPT !.bus = TRUE,
              !.blocks = @ + (IF token = 254 THEN 1 ELSE 0),
              !.dataBytes = @ + data,
              !.crcBytes = @ + crc,
              !.afterFail = @ + (IF o.failed THEN data + crc ELSE 0),
              !.failed = @ \/ token # 254]

(***************************************************************************)
(* sd_read_blocks                                                          *)
(***************************************************************************)
\* ReadCmd using the single-block command for every count.
ReadCmdSingle(count) == CMD17

\* Lines 264-269: CMD17 for one block, CMD18 for several.
ReadCmd(count) == IF count = 1 THEN CMD17 ELSE CMD18

SdReadBlocks ==
    /\ TaskIs("idle")
    /\ \E sector \in Sectors, count \in 0 .. MaxCount :
         IF ReadGate(Stat, count) # -1
         THEN Refuse("read", ReadGate(Stat, count), count)
         ELSE /\ op' = "read"
              /\ ret' = -1
              /\ obs' = [ObsInit EXCEPT !.reqCount = count, !.sector = sector]
              /\ Call(ReadCmd(count), CmdAddress(CardType, sector), "rd_cmd",
                      [LocInit EXCEPT !.count = count, !.multi = (count # 1),
                                      !.addr = CmdAddress(CardType, sector)])
              /\ UNCHANGED <<Stat, Timer1, Timer2, CardType, cs, fclk>>
              /\ TaskFrame

\* Lines 265 and 269: the read command answered; enter rcvr_datablock.
ReadCmdDone ==
    /\ TaskIs("rd_cmd")
    /\ IF loc.res = 0
       THEN /\ Timer1' = TokenTimeoutMs
            /\ pc' = "rd_token"
       ELSE /\ pc' = "rd_end"
            /\ UNCHANGED Timer1
    /\ UNCHANGED <<Timer2, cs, stack, loc, obs>>
    /\ IoOnlyTask

\* Lines 129-137 inside lines 265 and 270-274: one pass of the token wait;
\* when it ends, the block is read or the request is abandoned.
ReadToken ==
    /\ TaskIs("rd_token")
    /\ \E token \in TokenBytes :
         IF TokenWait(token, Timer1) = "again"
         THEN UNCHANGED <<Timer1, pc, stack, loc, obs>>
         ELSE /\ obs' = ObsRcvr(obs, token, RcvrData(token, BlockLen), RcvrCrc(token))
              /\ IF ~loc.multi
                 THEN /\ loc' = [loc EXCEPT !.count = IF TokenOk(token) THEN 0 ELSE @]
                      /\ pc' = "rd_end"
                      /\ UNCHANGED <<Timer1, stack>>
                 ELSE IF TokenOk(token) /\ loc.count - 1 # 0
                 THEN /\ loc' = [loc EXCEPT !.buff = @ + 1, !.count = @ - 1]
                      /\ Timer1' = TokenTimeoutMs
                      /\ UNCHANGED <<pc, stack>>
                 ELSE /\ Call(CMD12, 0, "rd_stop",
                              IF TokenOk(token)
                              THEN [loc EXCEPT !.buff = @ + 1, !.count = @ - 1]
                              ELSE loc)
                      /\ UNCHANGED Timer1
    /\ UNCHANGED <<Timer2, cs>>
    /\ IoOnlyTask

\* Line 274: CMD12 answered (its response is not looked at).
ReadStop ==
    /\ TaskIs("rd_stop")
    /\ pc' = "rd_end"
    /\ obs' = [obs EXCEPT !.stops = @ + 1]
    /\ UNCHANGED <<Timer1, Timer2, cs, stack, loc>>
    /\ IoOnlyTask

\* Lines 277-278 and 302-303: deselect and return.
IoEnd(at) ==
    /\ TaskIs(at)
    /\ cs' = Deselect
    /\ ret' = CountResult(loc.count)
    /\ pc' = "idle"
    /\ loc' = LocInit
    /\ obs' = UsedBus(obs)
    /\ UNCHANGED <<Stat, Timer1, Timer2, CardType, fclk, stack, op>>
    /\ TaskFrame

ReadEnd == IoEnd("rd_end")

(***************************************************************************)
(* xmit_datablock                                                          *)
(***************************************************************************)
\* Line 144: only a token other than the stop token is followed by data.
CarriesData(token) == token # TOKEN_STOP

\* Line 148: if ((resp & 0x1F) != 0x05) return 0.
Accepted(resp) == resp % 32 = 5

\* XmitOk without the test of the data response.
XmitOkAlways(token, resp) == TRUE

\* Lines 143-150: the result of xmit_datablock once the card is ready.
XmitOk(token, resp) == ~CarriesData(token) \/ Accepted(resp)

\* What the bus saw of one xmit_datablock that got past wait_ready: the
\* token, `data` blocks of data after it and, when data went out, the card's
\* data response.
ObsXmit(o, token, data, resp) ==
    [o EXCEPT !.bus = TRUE,
              !.blocks = @ + data,
              !.accepted = @ + (IF data > 0 /\ resp % 32 = 5 THEN 1 ELSE 0),
              !.afterFail = @ + (IF o.failed THEN data ELSE 0),
              !.stops = @ + (IF token = 253 THEN 1 ELSE 0),
              !.failed = @ \/ (data > 0 /\ resp % 32 # 5)]

(***************************************************************************)
(* sd_write_blocks                                                         *)
(***************************************************************************)
WriteCmd(count)  == IF count = 1 THEN CMD24 ELSE CMD25
WriteToken(multi) == IF multi THEN TOKEN_MULTI ELSE TOKEN_SINGLE
PreErase(ct)     == HasFlag(ct, CT_SD1) \/ HasFlag(ct, CT_SD2)   \* CardType & CT_SDC

SdWriteBlocks ==
    /\ TaskIs("idle")
    /\ \E sector \in Sectors, count \in 0 .. MaxCount :
         IF WriteGate(Stat, count) # -1
         THEN Refuse("write", WriteGate(Stat, count), count)
         ELSE LET l == [LocInit EXCEPT !.count = count, !.multi = (count # 1),
                                       !.addr = CmdAddress(CardType, sector)]
              IN  /\ op' = "write"
                  /\ ret' = -1
                  /\ obs' = [ObsInit EXCEPT !.reqCount = count, !.sector = sector]
                  /\ IF count # 1 /\ PreErase(CardType)
                     THEN Call(ACMD23, count, "wr_pre", l)
                     ELSE Call(WriteCmd(count), l.addr, "wr_cmd", l)
                  /\ UNCHANGED <<Stat, Timer1, Timer2, CardType, cs, fclk>>
                  /\ TaskFrame

\* Lines 293-294: ACMD23 answered (its response is not looked at).
WritePre ==
    /\ TaskIs("wr_pre")
    /\ Call(CMD25, loc.addr, "wr_cmd", loc)
    /\ UNCHANGED <<Timer1, Timer2, cs, obs>>
    /\ IoOnlyTask

\* Lines 289 and 294-296: the write command answered; enter xmit_datablock
\* up to the first pass of wait_ready.
WriteCmdDone ==
    /\ TaskIs("wr_cmd")
    /\ IF loc.res = 0
       THEN /\ Timer2' = ReadyTimeoutMs
            /\ loc' = [loc EXCEPT !.token = WriteToken(loc.multi)]
            /\ pc' = "wr_wait"
       ELSE /\ pc' = "wr_end"
            /\ UNCHANGED <<Timer2, loc>>
    /\ UNCHANGED <<Timer1, cs, stack, obs>>
    /\ IoOnlyTask

\* xmit_datablock(buff, token) returned ok (1 or 0) to sd_write_blocks:
\* lines 289-291 for a single block, lines 295-299 for several.
AfterXmit(ok) ==
    IF loc.token = TOKEN_SINGLE
    THEN /\ loc' = [loc EXCEPT !.count = IF ok THEN 0 ELSE @]
         /\ pc' = "wr_end"
         /\ UNCHANGED Timer2
    ELSE IF loc.token = TOKEN_MULTI
    THEN IF ok /\ loc.count - 1 # 0
         THEN /\ loc' = [loc EXCEPT !.buff = @ + 1, !.count = @ - 1]
              /\ Timer2' = ReadyTimeoutMs
              /\ UNCHANGED pc
         ELSE /\ loc' = IF ok
                        THEN [loc EXCEPT !.buff = @ + 1, !.count = @ - 1,
                                         !.token = TOKEN_STOP]
                        ELSE [loc EXCEPT !.token = TOKEN_STOP]
              /\ Timer2' = ReadyTimeoutMs
              /\ UNCHANGED pc
    ELSE /\ loc' = [loc EXCEPT !.count = IF ok THEN @ ELSE 1]
         /\ pc' = "wr_end"
         /\ UNCHANGED Timer2

\* Lines 142-150 inside lines 289 and 295-299: one pass of wait_ready; when
\* it ends, the token and the block are sent or the call fails.
WriteWait ==
    /\ TaskIs("wr_wait")
    /\ \E d \in ReadyBytes, resp \in DataResps :
         LET w == WaitReady(d, Timer2)
         IN  \/ /\ w = "again"
                /\ UNCHANGED <<Timer2, pc, loc, obs>>
             \/ /\ w = "timeout"
                /\ obs' = UsedBus(obs)
                /\ AfterXmit(FALSE)
             \/ /\ w = "ready"
                /\ obs' = ObsXmit(obs, loc.token, IF CarriesData(loc.token) THEN 1 ELSE 0, resp)
                /\ AfterXmit(XmitOk(loc.token, resp))
    /\ UNCHANGED <<Timer1, cs, stack>>
    /\ IoOnlyTask

WriteEnd == IoEnd("wr_end")

(***************************************************************************)
(* sd_status                                                               *)
(***************************************************************************)
\* sd_status answering STA_NOINIT whatever the status is.
sd_status_noinit(stat) == STA_NOINIT

\* Line 255: return Stat.
sd_status(stat) == stat

SdStatus ==
    /\ TaskIs("idle")
    /\ op' = "status"
    /\ ret' = sd_status(Stat)
    /\ obs' = ObsInit
    /\ UNCHANGED <<Stat, Timer1, Timer2, CardType, cs, fclk, pc, stack, loc>>
    /\ TaskFrame

(***************************************************************************)
(* sd_ioctl                                                                *)
(***************************************************************************)
CsdLen == 16

\* A value stored through buff: its width in bytes (0: nothing stored) and
\* its two 16-bit halves.
NoStore == [bytes |-> 0, hi |-> 0, lo |-> 0]
Word(x)  == [bytes |-> 2, hi |-> 0, lo |-> x % 65536]
DWord(x) == [bytes |-> 4, hi |-> (x \div 65536) % 65536, lo |-> x % 65536]

\* x << k in DWORD arithmetic, for 0 <= k < 32.
RECURSIVE Shl(_, _)
Shl(v, k) ==
    IF k = 0 THEN v
    ELSE Shl([bytes |-> v.bytes,
              hi |-> (2 * v.hi + (2 * v.lo) \div 65536) % 65536,
              lo |-> (2 * v.lo) % 65536], k - 1)

\* x << k as the build can compute it: the value when 0 <= k < 32; outside
\* that range the shift is undefined and yields the shift by the low five
\* bits of k, or 0.
Shifts(v, k) ==
    IF 0 <= k /\ k < 32 THEN {Shl(v, k)}
    ELSE {Shl(v, k % 32), [v EXCEPT !.hi = 0, !.lo = 0]}

\* csd[i] of a received CSD, i from 0.
CsdByte(csd, i) == csd[i + 1]

\* Line 323: the CSD structure version, csd[0] >> 6.
CsdVersion(csd) == CsdByte(csd, 0) \div 64

\* Line 324: csize = csd[9] + (csd[8] << 8) + ((csd[7] & 63) << 16) + 1.
CSizeV2(csd) ==
    CsdByte(csd, 9) + CsdByte(csd, 8) * 256 + (CsdByte(csd, 7) % 64) * 65536 + 1

\* Line 328: n = (csd[5] & 15) + ((csd[10] & 128) >> 7) + ((csd[9] & 3) << 1) + 2,
\* as a BYTE.
CsdShiftV1(csd) ==
    ((CsdByte(csd, 5) % 16) + CsdByte(csd, 10) \div 128
       + (CsdByte(csd, 9) % 4) * 2 + 2) % 256

\* Line 329: csize = (csd[8] >> 6) + (csd[7] << 2) + ((csd[6] & 3) << 10) + 1.
CSizeV1(csd) ==
    CsdByte(csd, 8) \div 64 + CsdByte(csd, 7) * 4 + (CsdByte(csd, 6) % 4) * 1024 + 1

\* Lines 323-331: the sector counts GET_SECTOR_COUNT can store for csd.
SectorCount(csd) ==
    IF CsdVersion(csd) = 1
    THEN {Shl(DWord(CSizeV2(csd)), 10)}
    ELSE Shifts(DWord(CSizeV1(csd)), CsdShiftV1(csd) - 9)

\* Lines 347-351: the erase block sizes GET_BLOCK_SIZE can store for csd on
\* a card that is not SD v2.
EraseBlock(ct, csd) ==
    IF HasFlag(ct, CT_SD1)
    THEN Shifts(DWord((CsdByte(csd, 10) % 64) * 2 + CsdByte(csd, 11) \div 128 + 1),
                CsdByte(csd, 13) \div 64 - 1)
    ELSE {DWord((((CsdByte(csd, 10) % 128) \div 4) + 1)
                * ((CsdByte(csd, 11) % 4) * 8 + CsdByte(csd, 11) \div 32 + 1))}

\* What the switch stores through buff once the CSD has been read.
CsdStore(c, ct, csd) ==
    IF c = GET_SECTOR_COUNT THEN SectorCount(csd) ELSE EraseBlock(ct, csd)

\* Lines 337 and 343: what the switch stores without touching the card.
PlainStore(c, ct) ==
    IF c = GET_SECTOR_SIZE THEN Word(BlockLen)
    ELSE IF c = GET_BLOCK_SIZE /\ HasFlag(ct, CT_SD2) THEN DWord(128)
    ELSE NoStore

\* Line 311: the gate of sd_ioctl.
IoctlGate(stat) == IF HasFlag(stat, STA_NOINIT) THEN RES_NOTRDY ELSE -1

\* IoctlPlan treating every code it does not know as GET_SECTOR_SIZE.
IoctlPlanLax(c, ct) ==
    IF c = CTRL_SYNC THEN "select"
    ELSE IF c = GET_SECTOR_COUNT THEN "csd"
    ELSE IF c = GET_BLOCK_SIZE THEN (IF HasFlag(ct, CT_SD2) THEN "ok" ELSE "csd")
    ELSE "ok"

\* Lines 313-359: what the switch does first for command code c:
\* "select" (CTRL_SYNC), "csd" (CMD9 and a 16-byte data block), or the
\* result it sets without touching the card.
IoctlPlan(c, ct) ==
    IF c = CTRL_SYNC THEN "select"
    ELSE IF c = GET_SECTOR_COUNT THEN "csd"
    ELSE IF c = GET_SECTOR_SIZE THEN "ok"
    ELSE IF c = GET_BLOCK_SIZE THEN (IF HasFlag(ct, CT_SD2) THEN "ok" ELSE "csd")
    ELSE "parerr"

SdIoctl ==
    /\ TaskIs("idle")
    /\ op' = "ioctl"
    /\ \E c \in IoctlCodes :
         IF IoctlGate(Stat) # -1
         THEN /\ ret' = IoctlGate(Stat)
              /\ obs' = ObsInit
              /\ UNCHANGED <<Timer2, cs, pc, stack, loc>>
         ELSE LET plan == IoctlPlan(c, CardType)
                  l == [LocInit EXCEPT !.ioc = c, !.ires = RES_ERROR]
              IN  /\ ret' = -1
                  /\ IF plan = "select"
                     THEN /\ cs' = "low"
                          /\ Timer2' = ReadyTimeoutMs
                          /\ pc' = "io_wait"
                          /\ loc' = l
                          /\ obs' = ObsInit
                          /\ UNCHANGED stack
                     ELSE IF plan = "csd"
                     THEN /\ Call(CMD9, 0, "io_csd", l)
                          /\ obs' = ObsInit
                          /\ UNCHANGED <<Timer2, cs>>
                     ELSE /\ pc' = "io_end"
                          /\ loc' = [l EXCEPT !.ires = IF plan = "ok" THEN RES_OK
                                                       ELSE RES_PARERR]
                          /\ obs' = [ObsInit EXCEPT !.stored = PlainStore(c, CardType)]
                          /\ UNCHANGED <<Timer2, cs, stack>>
    /\ UNCHANGED <<Stat, Timer1, CardType, fclk>>
    /\ TaskFrame

\* Lines 315-318: one pass of wait_ready inside _select.
IoctlWait ==
    /\ TaskIs("io_wait")
    /\ \E d \in ReadyBytes :
         LET w == WaitReady(d, Timer2)
         IN  \/ /\ w = "again"
                /\ UNCHANGED <<pc, loc, cs, obs>>
             \/ /\ w = "ready"         \* deselect(); res = RES_OK
                /\ cs' = Deselect
                /\ loc' = [loc EXCEPT !.ires = RES_OK]
                /\ pc' = "io_end"
                /\ obs' = UsedBus(obs)
             \/ /\ w = "timeout"       \* _select: deselect(); return 0
                /\ cs' = Deselect
                /\ pc' = "io_end"
                /\ obs' = UsedBus(obs)
                /\ UNCHANGED loc
    /\ UNCHANGED <<Timer1, Timer2, stack>>
    /\ IoOnlyTask

\* Lines 322 and 346: CMD9 answered; enter rcvr_datablock(csd, 16).
IoctlCsd ==
    /\ TaskIs("io_csd")
    /\ IF loc.res = 0
       THEN /\ Timer1' = TokenTimeoutMs
            /\ pc' = "io_token"
       ELSE /\ pc' = "io_end"
            /\ UNCHANGED Timer1
    /\ UNCHANGED <<Timer2, cs, stack, loc, obs>>
    /\ IoOnlyTask

\* Lines 129-137 inside lines 322 and 346: one pass of the token wait; when
\* it ends with the CSD read, res = RES_OK.
IoctlToken ==
    /\ TaskIs("io_token")
    /\ \E token \in TokenBytes :
         IF TokenWait(token, Timer1) = "again"
         THEN UNCHANGED <<pc, loc, obs>>
         ELSE /\ IF TokenOk(token)
                 THEN \E csd \in Csds : \E v \in CsdStore(loc.ioc, CardType, csd) :
                        obs' = [ObsRcvr(obs, token, RcvrData(token, CsdLen), RcvrCrc(token))
                                  EXCEPT !.csd = csd, !.stored = v]
                 ELSE obs' = ObsRcvr(obs, token, 0, 0)
              /\ loc' = [loc EXCEPT !.ires = IF TokenOk(token) THEN RES_OK ELSE @]
              /\ pc' = "io_end"
    /\ UNCHANGED <<Timer1, Timer2, cs, stack>>
    /\ IoOnlyTask

\* Lines 361-362: deselect and return res.
IoctlEnd ==
    /\ TaskIs("io_end")
    /\ cs' = Deselect
    /\ ret' = loc.ires
    /\ pc' = "idle"
    /\ loc' = LocInit
    /\ obs' = UsedBus(obs)
    /\ UNCHANGED <<Stat, Timer1, Timer2, CardType, fclk, stack, op>>
    /\ TaskFrame

(***************************************************************************)
(* The polling driver                                                      *)
(***************************************************************************)
InitSteps ==
    \/ InitCmd0 \/ InitCmd8 \/ InitV2Loop \/ InitV2Res \/ InitV2Ocr \/ InitV2Type
    \/ InitProbe \/ InitV1Loop \/ InitV1Res \/ InitV1Len \/ InitV1Type \/ InitEnd

SendCmdSteps == SendCmdEntry \/ SendCmdApp \/ SendCmdWait \/ SendCmdFrame

ReadSteps == ReadCmdDone \/ ReadToken \/ ReadStop \/ ReadEnd

WriteSteps == WritePre \/ WriteCmdDone \/ WriteWait \/ WriteEnd

IoctlSteps == IoctlWait \/ IoctlCsd \/ IoctlToken \/ IoctlEnd

Next ==
    \/ TIMER3_IRQHandler
    \/ TickUntilExpiry
    \/ SdInit \/ SdStatus \/ SdReadBlocks \/ SdWriteBlocks \/ SdIoctl
    \/ InitSteps
    \/ SendCmdSteps
    \/ ReadSteps
    \/ WriteSteps
    \/ IoctlSteps

Spec == Init /\ [][Next]_vars

(***************************************************************************)
(* Properties of the polling driver.                                       *)
(***************************************************************************)

\* sd_init has returned to its caller.
InitReturned == pc = "idle" /\ op = "init"

\* The card answered the negotiation as an SD v2 card: idle to CMD0, idle
\* to CMD8 with the echo 0x01 0xAA in the trailer.
AnsweredAsV2 ==
    /\ obs.r0 = 1
    /\ obs.r8 = 1
    /\ Len(obs.trailer) = 4
    /\ obs.trailer[3] = 1
    /\ obs.trailer[4] = 170

\* C1: when the card answers CMD0 and CMD8 as an SD v2 card, reports ready
\* to ACMD41 before the negotiation counter runs out and answers CMD58 with
\* an OCR whose first byte has bit 0x40 set, sd_init returns with card type
\* SD2|BLOCK and with NOINIT clear, however the ticks interleave.
C1_V2BlockCard ==
    (/\ InitReturned
     /\ AnsweredAsV2
     /\ obs.r41 = 0
     /\ obs.r58 = 0
     /\ obs.ocr0 >= 0
     /\ (obs.ocr0 \div 64) % 2 = 1)
    => /\ CardType = CT_SD2 + CT_BLOCK
       /\ Stat % 2 = 0
       /\ ret = Stat

C1_Witness ==
    /\ InitReturned
    /\ AnsweredAsV2
    /\ obs.r41 = 0
    /\ obs.r58 = 0
    /\ obs.ocr0 = 64
    /\ ticks > 0
    /\ CardType = 12
    /\ Stat = 0

\* The negotiation of the last sd_init failed: no idle answer to CMD0, a
\* CMD8 trailer without the echo, the counter ran out, or CMD58 or CMD16
\* was refused.
InitFailed ==
    \/ obs.r0 # 1
    \/ obs.r8 = 1 /\ ~AnsweredAsV2
    \/ obs.expired
    \/ obs.r58 \notin {-1, 0}
    \/ obs.r16 \notin {-1, 0}

\* C3: after every return of sd_init, NOINIT is clear exactly when the card
\* type is non-zero, and a failed negotiation leaves card type 0 and the
\* status exactly NOINIT, on a first call and on a re-initialization alike.
C3_InitOutcome ==
    InitReturned =>
        /\ (Stat % 2 = 0) <=> (CardType # 0)
        /\ ret = Stat
        /\ InitFailed => CardType = 0 /\ Stat = 1

C3_Witness ==
    /\ InitReturned
    /\ obs.prevType # 0
    /\ obs.expired
    /\ CardType = 0
    /\ Stat = 1

\* A refused call returns at once and leaves the driver as it was.
Untouched ==
    /\ pc' = "idle"
    /\ ~obs'.bus
    /\ UNCHANGED <<cs, Stat, CardType, Timer1, Timer2>>

\* C4: sd_read_blocks and sd_write_blocks return PARERR when count is 0,
\* NOTRDY when count is non-zero and the status has NOINIT, and (write
\* only, next in order) WRPRT when the status has PROTECT; in each case
\* no byte goes over the bus and cs, Stat, CardType and both counters keep
\* their values.
C4_GateRefusals ==
    /\ \A s \in 0..7, n \in 1..MaxCount :
         /\ WriteGate(s, 0) = RES_PARERR
         /\ ReadGate(s, 0) = RES_PARERR
         /\ s % 2 = 1 => WriteGate(s, n) = RES_NOTRDY /\ ReadGate(s, n) = RES_NOTRDY
         /\ s % 2 = 0 /\ s >= 4 => WriteGate(s, n) = RES_WRPRT
    /\ [][/\ (SdReadBlocks \/ SdWriteBlocks) /\ obs'.reqCount = 0
             => ret' = RES_PARERR /\ Untouched
          /\ (SdReadBlocks \/ SdWriteBlocks) /\ obs'.reqCount # 0 /\ Stat % 2 = 1
             => ret' = RES_NOTRDY /\ Untouched
          /\ SdWriteBlocks /\ obs'.reqCount # 0 /\ Stat % 2 = 0 /\ Stat >= 4
             => ret' = RES_WRPRT /\ Untouched]_vars

C4_Witness ==
    /\ pc = "idle"
    /\ op = "write"
    /\ ret = RES_PARERR
    /\ Stat = 0
    /\ CardType # 0
    /\ Timer1 > 0

\* C5: once the card rejects a data block (low five bits of the data
\* response are not 0b00101) no further data block is sent, the buffer
\* position stands at the blocks accepted so far, the remaining count is
\* not zero and sd_write_blocks returns RES_ERROR.
C5_WriteRejection ==
    (op = "write" /\ obs.failed) =>
        /\ obs.afterFail = 0
        /\ obs.blocks = obs.accepted + 1
        /\ pc = "idle" => ret = RES_ERROR
        /\ pc # "idle" => loc.buff = obs.accepted /\ loc.count # 0

C5_Witness ==
    /\ op = "write"
    /\ obs.failed
    /\ obs.accepted = 1
    /\ pc = "idle"
    /\ ret = RES_ERROR

\* C6: the wait for the start token of a read block ends with the first
\* pass made after the 200 ms counter reached zero; each block started by
\* 0xFE has exactly 512 data bytes and 2 CRC bytes read after it; after a
\* token failure nothing more is read and sd_read_blocks returns RES_ERROR.
C6_ReadBlocks ==
    /\ [](op = "read" =>
            /\ obs.dataBytes = 512 * obs.blocks
            /\ obs.crcBytes = 2 * obs.blocks
            /\ pc = "rd_token" => Timer1 <= 200
            /\ obs.failed => /\ obs.afterFail = 0
                             /\ pc = "idle" => ret = RES_ERROR)
    /\ [][(pc = "rd_token" /\ Timer1 = 0 /\ UNCHANGED <<Timer2, ticks>>)
             => (pc' # "rd_token" \/ obs'.blocks = obs.blocks + 1)]_vars

C6_Witness ==
    /\ op = "read"
    /\ obs.failed
    /\ obs.blocks = 1
    /\ obs.dataBytes = 512
    /\ Timer1 = 0
    /\ pc = "idle"
    /\ ret = RES_ERROR

\* C7: chip-select is high whenever an operation has returned.
C7_CsHighAtReturn == pc = "idle" => cs = "high"

C7_Witness ==
    /\ pc = "idle"
    /\ op = "ioctl"
    /\ ret = RES_ERROR
    /\ obs.bus
    /\ cs = "high"

(***************************************************************************)
(* sd_init on its own, with a tick that keeps firing and a task that keeps *)
(* running: every byte exchange completes, so a task step that can be      *)
(* taken is taken, and the timer interrupt is never held off for ever.     *)
(***************************************************************************)
InitTask == InitSteps \/ SendCmdSteps

NextInit ==
    \/ TIMER3_IRQHandler
    \/ TickUntilExpiry
    \/ SdInit
    \/ InitTask

SpecInitFair ==
    /\ Init
    /\ [][NextInit]_vars
    /\ WF_vars(InitTask)
    /\ WF_vars(TickUntilExpiry)

\* C2: when the card answers as an SD v2 card but never reports ready to
\* ACMD41, sd_init still returns, with NOINIT set and card type 0, provided
\* the tick keeps firing and every byte exchange completes.
C2_NeverReadyReturns ==
    [](pc = "init_v2_loop" =>
         <>(/\ InitReturned
            /\ obs.r41 # 0 => Stat % 2 = 1 /\ CardType = 0 /\ ret = Stat))

C2_Witness ==
    /\ InitReturned
    /\ AnsweredAsV2
    /\ obs.r41 \notin {-1, 0}
    /\ obs.expired
    /\ Stat = 1
    /\ CardType = 0

(***************************************************************************)
(* The DMA transport of sd_spi_hal.cpp.  The transmit channel (DMA0        *)
(* channel 4) feeds the SPI data register, the receive channel (DMA0       *)
(* channel 3) drains it.  Transfer lengths are counted in units.           *)
(***************************************************************************)
MaxDmaLen == 2
Buffers   == {"bufA", "bufB"}

\* The frame of a DMA-path step: the polling driver's own state stays.
PollFrame ==
    UNCHANGED <<Stat, Timer1, Timer2, CardType, fclk, pc, stack, loc, op, ret, obs, ticks,
                Timeout_ms, card, test, msc, appVars>>

\* hal_dma_get_status answering BUSY whatever the cell holds.
hal_dma_get_status_busy == "BUSY"

\* hal_dma_get_status: the getter of the status cell.
hal_dma_get_status == g_dma_status

\* hal_spi_dma_write_start publishing SUCCESS itself instead of BUSY.
hal_spi_dma_write_start_done(buff, count) ==
    /\ g_dma_status' = "SUCCESS"
    /\ chan' = [tx |-> [chan.tx EXCEPT !.mem = buff, !.cnt = count, !.inc = TRUE,
                                       !.ftfie = TRUE, !.en = TRUE],
                rx |-> [chan.rx EXCEPT !.mem = "dummy_rx", !.cnt = count,
                                       !.inc = FALSE, !.en = TRUE]]
    /\ spi_dma' = {"TX"}
    /\ UNCHANGED <<rbne, trans>>

\* hal_spi_dma_write_start: status BUSY, both channels programmed and
\* enabled, the transmit interrupt enabled, the SPI transmit request on.
hal_spi_dma_write_start(buff, count) ==
    /\ g_dma_status' = "BUSY"
    /\ chan' = [tx |-> [chan.tx EXCEPT !.mem = buff, !.cnt = count, !.inc = TRUE,
                                       !.ftfie = TRUE, !.en = TRUE],
                rx |-> [chan.rx EXCEPT !.mem = "dummy_rx", !.cnt = count,
                                       !.inc = FALSE, !.en = TRUE]]
    /\ spi_dma' = {"TX"}
    /\ UNCHANGED <<rbne, trans>>

\* hal_spi_dma_read_start: status BUSY, the receive buffer flushed (the
\* flush first waits for a frame in transmission to end), both
\* channels programmed and enabled, the receive interrupt enabled, the SPI
\* receive request on.
hal_spi_dma_read_start(buff, count) ==
    /\ g_dma_status' = "BUSY"
    /\ trans' = FALSE
    /\ rbne' = FALSE
    /\ chan' = [tx |-> [chan.tx EXCEPT !.mem = "dummy_tx_ff", !.cnt = count,
                                       !.inc = FALSE, !.en = TRUE],
                rx |-> [chan.rx EXCEPT !.mem = buff, !.cnt = count, !.inc = TRUE,
                                       !.ftfie = TRUE, !.en = TRUE]]
    /\ spi_dma' = {"RX"}

\* A client of the transport calls a start function; neither returns a value.
HalWriteStart ==
    /\ TaskIs("idle")
    /\ \E buff \in Buffers, count \in 1..MaxDmaLen : hal_spi_dma_write_start(buff, count)
    /\ dobs' = [DobsInit EXCEPT !.call = "hal_write"]
    /\ UNCHANGED <<ctx, cs, isr>>
    /\ PollFrame

HalReadStart ==
    /\ TaskIs("idle")
    /\ \E buff \in Buffers, count \in 1..MaxDmaLen : hal_spi_dma_read_start(buff, count)
    /\ dobs' = [DobsInit EXCEPT !.call = "hal_read"]
    /\ UNCHANGED <<ctx, cs, isr>>
    /\ PollFrame

\* The request line of a channel: the transmit channel is asked for a unit
\* when the SPI transmit request is on and no frame is in transmission; the
\* receive channel when the SPI receive request is on and a received unit
\* waits in the data register.  The SPI is a full-duplex master: a unit is
\* received only while one is sent.
Requested(ch) ==
    IF ch = "tx" THEN "TX" \in spi_dma /\ ~trans ELSE "RX" \in spi_dma /\ rbne

\* One unit moved by an enabled channel; the last unit raises the
\* transfer-finished flag.  A unit moved by the transmit channel starts a
\* frame; a unit moved by the receive channel empties the receive buffer.
DmaMove(ch) ==
    /\ chan[ch].en
    /\ chan[ch].cnt > 0
    /\ Requested(ch)
    /\ chan' = [chan EXCEPT ![ch].cnt = @ - 1,
                            ![ch].ftf = @ \/ chan[ch].cnt = 1]
    /\ IF ch = "tx" THEN trans' = TRUE /\ UNCHANGED rbne
                    ELSE rbne' = FALSE /\ UNCHANGED trans
    /\ UNCHANGED <<g_dma_status, spi_dma, isr, ctx, dobs, cs>>
    /\ PollFrame

DmaTransfer == \E ch \in {"tx", "rx"} : DmaMove(ch)

\* The SPI ends the frame in transmission: the unit received with it waits
\* in the data register.
SpiFrameDone ==
    /\ trans
    /\ trans' = FALSE
    /\ rbne' = TRUE
    /\ UNCHANGED <<g_dma_status, chan, spi_dma, isr, ctx, dobs, cs>>
    /\ PollFrame

\* Both handlers, once their flag is found set: SPI requests off, both
\* channels disabled, own flags cleared and own interrupt disabled.
Teardown(ch) ==
    [c \in {"tx", "rx"} |->
        IF c = ch THEN [chan[c] EXCEPT !.en = FALSE, !.ftf = FALSE, !.ftfie = FALSE]
        ELSE [chan[c] EXCEPT !.en = FALSE]]

\* DMA0_Channel3_IRQHandler__ (receive channel).
DMA0_Channel3_IRQHandler__ ==
    /\ isr = "none"
    /\ IF chan.rx.ftf
       THEN /\ chan' = Teardown("rx")
            /\ spi_dma' = {}
            /\ g_dma_status' = "SUCCESS"
       ELSE UNCHANGED <<chan, spi_dma, g_dma_status>>
    /\ UNCHANGED <<rbne, trans, isr, ctx, dobs, cs>>
    /\ PollFrame

\* DMA0_Channel4_IRQHandler__ going on to its wait and its store of SUCCESS
\* without looking at the transfer-finished flag.
DMA0_Channel4_Unchecked ==
    /\ isr = "none"
    /\ chan' = [chan EXCEPT !.tx.ftf = FALSE, !.tx.ftfie = FALSE]
    /\ isr' = "ch4_wait"
    /\ UNCHANGED <<g_dma_status, spi_dma, rbne, trans, ctx, dobs, cs>>
    /\ PollFrame

\* DMA0_Channel4_IRQHandler__ (transmit channel) up to its wait: with its
\* flag set it clears the flag, disables its interrupt and waits for the
\* frame in transmission to end.
DMA0_Channel4_IRQHandler__ ==
    /\ isr = "none"
    /\ IF chan.tx.ftf
       THEN /\ chan' = [chan EXCEPT !.tx.ftf = FALSE, !.tx.ftfie = FALSE]
            /\ isr' = "ch4_wait"
       ELSE UNCHANGED <<chan, isr>>
    /\ UNCHANGED <<g_dma_status, spi_dma, rbne, trans, ctx, dobs, cs>>
    /\ PollFrame

\* The wait of DMA0_Channel4_IRQHandler__ is over once no frame is in
\* transmission: SPI requests off, both channels disabled, the receive
\* buffer flushed, SUCCESS stored, and the handler returns.
Channel4AfterWait ==
    /\ isr = "ch4_wait"
    /\ ~trans
    /\ chan' = [c \in {"tx", "rx"} |-> [chan[c] EXCEPT !.en = FALSE]]
    /\ spi_dma' = {}
    /\ rbne' = FALSE
    /\ g_dma_status' = "SUCCESS"
    /\ isr' = "none"
    /\ UNCHANGED <<trans, ctx, dobs, cs>>
    /\ PollFrame

(***************************************************************************)
(* The asynchronous block path on top of the transport: start_read,        *)
(* start_write and poll_status of the DMA block I/O state machine.  Each   *)
(* start validates as the polling path does, refuses while a transfer is   *)
(* Busy, issues the command (the card may refuse it or withhold the start  *)
(* token), records the context and hands the buffer to the transport.      *)
(***************************************************************************)
Refused(name, code) ==
    /\ dobs' = [DobsInit EXCEPT !.call = name, !.ret = code]
    /\ UNCHANGED <<g_dma_status, chan, spi_dma, rbne, trans, ctx, cs>>

StartFailed(name) ==
    /\ dobs' = [DobsInit EXCEPT !.call = name, !.ret = RES_ERROR]
    /\ cs' = Deselect
    /\ ctx' = CtxNone
    /\ UNCHANGED <<g_dma_status, chan, spi_dma, rbne, trans>>

Started(name, dir, count) ==
    /\ dobs' = [DobsInit EXCEPT !.call = name, !.ret = RES_OK]
    /\ cs' = "low"
    /\ ctx' = [live |-> TRUE, dir |-> dir, multi |-> count > 1]

sd_write_blocks_dma_start ==
    /\ TaskIs("idle")
    /\ \E buff \in Buffers, count \in 0..MaxDmaLen, cardOk \in BOOLEAN :
         IF WriteGate(Stat, count) # -1 THEN Refused("write_start", WriteGate(Stat, count))
         ELSE IF hal_dma_get_status = "BUSY" THEN Refused("write_start", RES_NOTRDY)
         ELSE IF ~cardOk THEN StartFailed("write_start")
         ELSE /\ Started("write_start", "write", count)
              /\ hal_spi_dma_write_start(buff, count)
    /\ UNCHANGED isr
    /\ PollFrame

sd_read_blocks_dma_start ==
    /\ TaskIs("idle")
    /\ \E buff \in Buffers, count \in 0..MaxDmaLen, cardOk \in BOOLEAN :
         IF ReadGate(Stat, count) # -1 THEN Refused("read_start", ReadGate(Stat, count))
         ELSE IF hal_dma_get_status = "BUSY" THEN Refused("read_start", RES_NOTRDY)
         ELSE IF ~cardOk THEN StartFailed("read_start")
         ELSE /\ Started("read_start", "read", count)
              /\ hal_spi_dma_read_start(buff, count)
    /\ UNCHANGED isr
    /\ PollFrame

\* The protocol follow-up of a finished transfer: the stop token after a
\* multi-block write, CMD12 after a multi-block read.
StopTokens(c) == IF c.live /\ c.multi /\ c.dir = "write" THEN 1 ELSE 0
StopCmds(c)   == IF c.live /\ c.multi /\ c.dir = "read" THEN 1 ELSE 0

\* poll_status: NotReady while Busy; on a terminal status the follow-up,
\* deselect, the context cleared, Ok or Error.  The status cell itself is
\* written by the transport only.  With no transfer ever started there is
\* nothing to report on; the result is then either Ok or Error.
sd_dma_transfer_status ==
    /\ TaskIs("idle")
    /\ LET s == hal_dma_get_status
       IN  \/ /\ s = "BUSY"
              /\ dobs' = [DobsInit EXCEPT !.call = "poll", !.seen = s, !.ret = RES_NOTRDY]
              /\ UNCHANGED <<ctx, cs>>
           \/ /\ s \in {"SUCCESS", "ERROR"}
              /\ dobs' = [DobsInit EXCEPT !.call = "poll", !.seen = s,
                                          !.stopToken = StopTokens(ctx),
                                          !.cmd12 = StopCmds(ctx),
                                          !.ret = IF s = "SUCCESS" THEN RES_OK ELSE RES_ERROR]
              /\ cs' = Deselect
              /\ ctx' = CtxNone
           \/ /\ s = "IDLE"
              /\ \E r \in {RES_OK, RES_ERROR} :
                   dobs' = [DobsInit EXCEPT !.call = "poll", !.seen = s, !.ret = r]
              /\ UNCHANGED <<ctx, cs>>
    /\ UNCHANGED <<g_dma_status, chan, spi_dma, rbne, trans, isr>>
    /\ PollFrame

\* The driver once sd_init has accepted an SD v2 block-addressed card and
\* before any tick: the state the asynchronous path starts from.
Initialized ==
    /\ DmaInit
    /\ Stat = 0
    /\ Timer1 = InitTimeoutMs
    /\ Timer2 = ReadyTimeoutMs
    /\ CardType = CT_SD2 + CT_BLOCK
    /\ cs = "high"
    /\ fclk = "fast"
    /\ pc = "idle"
    /\ stack = <<>>
    /\ loc = LocInit
    /\ op = "init"
    /\ ret = 0
    /\ obs = [ObsInit EXCEPT !.bus = TRUE, !.r0 = 1, !.r8 = 1, !.r41 = 0, !.r58 = 0,
                             !.trailer = <<0, 0, 1, 170>>, !.ocr0 = 192,
                             !.frames = <<Frame(CMD58, 0)>>]
    /\ ticks = 0

InitDma == Init \/ Initialized

NextDma ==
    \/ HalWriteStart
    \/ HalReadStart
    \/ DmaTransfer
    \/ SpiFrameDone
    \/ DMA0_Channel3_IRQHandler__
    \/ DMA0_Channel4_IRQHandler__
    \/ Channel4AfterWait
    \/ sd_write_blocks_dma_start
    \/ sd_read_blocks_dma_start
    \/ sd_dma_transfer_status

SpecDma == InitDma /\ [][NextDma]_vars

(***************************************************************************)
(* Properties of the DMA path.                                             *)
(***************************************************************************)

\* C8: a transport start (hal_spi_dma_write_start, hal_spi_dma_read_start)
\* made while the status is Busy is rejected: it reports failure and leaves
\* the status, the channel configuration, the SPI requests and the pending
\* transfer context as they were.
C8_BusyStartRejected ==
    [][(g_dma_status = "BUSY" /\ (HalWriteStart \/ HalReadStart))
          => /\ dobs'.ret \notin {-1, RES_OK}
             /\ UNCHANGED <<g_dma_status, chan, spi_dma, ctx>>]_vars

\* The steps the status cycle Idle -> Busy -> {Success, Error} -> Idle allows.
StatusCycle ==
    {<<"IDLE", "BUSY">>, <<"BUSY", "SUCCESS">>, <<"BUSY", "ERROR">>,
     <<"SUCCESS", "IDLE">>, <<"ERROR", "IDLE">>}

\* C9: the DMA status only moves along Idle -> Busy -> {Success, Error} ->
\* Idle: Busy is entered from Idle by a start, Success and Error are entered
\* from Busy, and a terminal status is left for Idle only.
C9_StatusCycle ==
    [][g_dma_status' # g_dma_status
          => <<g_dma_status, g_dma_status'>> \in StatusCycle]_vars

StartStep ==
    HalWriteStart \/ HalReadStart \/ sd_write_blocks_dma_start \/ sd_read_blocks_dma_start

HandlerStep ==
    DMA0_Channel3_IRQHandler__ \/ DMA0_Channel4_IRQHandler__ \/ Channel4AfterWait

C12_HandlerNeverWaits ==
    isr # "none" => ENABLED Channel4AfterWait

(***************************************************************************)
(* The transport used as its clients use it: a transfer is started only    *)
(* when none is Busy, the client polls, and the DMA channels, the SPI and  *)
(* the handlers all take the steps they can take.                          *)
(***************************************************************************)
OrderlyWriteStart == hal_dma_get_status # "BUSY" /\ HalWriteStart

OrderlyReadStart == hal_dma_get_status # "BUSY" /\ HalReadStart

NextDmaOrderly ==
    \/ OrderlyWriteStart
    \/ OrderlyReadStart
    \/ DmaTransfer
    \/ SpiFrameDone
    \/ DMA0_Channel3_IRQHandler__
    \/ DMA0_Channel4_IRQHandler__
    \/ Channel4AfterWait
    \/ sd_dma_transfer_status

SpecDmaFair ==
    /\ InitDma
    /\ [][NextDmaOrderly]_vars
    /\ WF_vars(DmaTransfer)
    /\ WF_vars(SpiFrameDone)
    /\ WF_vars(DMA0_Channel3_IRQHandler__)
    /\ WF_vars(DMA0_Channel4_IRQHandler__)
    /\ WF_vars(Channel4AfterWait)

\* C13: every transfer started with hal_spi_dma_read_start or
\* hal_spi_dma_write_start eventually leaves Busy, with Success stored by a
\* handler or Error stored by a timeout.
C13_LeavesBusy ==
    [](g_dma_status = "BUSY" => <>(g_dma_status \in {"SUCCESS", "ERROR"}))

(***************************************************************************)
(* The busy-wait loops at the level of the SPI flags.  xchg_spi waits for  *)
(* the transmit buffer to be empty, hands the byte to the SPI, waits for   *)
(* the receive buffer to be filled and takes the byte.  wait_ready, the    *)
(* token wait of rcvr_datablock and the response poll of send_cmd call it  *)
(* once per iteration.  pc is "xchg_tbe" or "xchg_rbne" inside xchg_spi;   *)
(* op names the loop that called it and loc.count is the response poll's   *)
(* n.                                                                      *)
(***************************************************************************)
XchgFrame ==
    UNCHANGED <<Stat, CardType, cs, fclk, stack, obs, ticks,
                g_dma_status, chan, spi_dma, isr, Timeout_ms, card, test, msc, appVars, ctx, dobs>>

\* wait_ready(500): UINT wt armed into Timer2, then the first exchange.
WaitReadyEntry ==
    /\ TaskIs("idle")
    /\ Timer2' = ReadyTimeoutMs
    /\ op' = "wait_ready"
    /\ pc' = "xchg_tbe"
    /\ ret' = -1
    /\ loc' = LocInit
    /\ UNCHANGED <<Timer1, rbne, trans>>
    /\ XchgFrame

\* rcvr_datablock: Timer1 = 200, then the first exchange.
RcvrTokenEntry ==
    /\ TaskIs("idle")
    /\ Timer1' = TokenTimeoutMs
    /\ op' = "rcvr_datablock"
    /\ pc' = "xchg_tbe"
    /\ ret' = -1
    /\ loc' = LocInit
    /\ UNCHANGED <<Timer2, rbne, trans>>
    /\ XchgFrame

\* send_cmd after the frame: n = 10, then the first exchange.
RespPollEntry ==
    /\ TaskIs("idle")
    /\ loc' = [LocInit EXCEPT !.count = RespAttempts]
    /\ op' = "send_cmd"
    /\ pc' = "xchg_tbe"
    /\ ret' = -1
    /\ UNCHANGED <<Timer1, Timer2, rbne, trans>>
    /\ XchgFrame

\* xchg_spi, lines 71-72: once the transmit buffer is empty the byte is
\* handed to the SPI, which starts a frame.
XchgSpiTransmit ==
    /\ pc = "xchg_tbe"
    /\ ~trans
    /\ trans' = TRUE
    /\ pc' = "xchg_rbne"
    /\ UNCHANGED <<Timer1, Timer2, loc, op, ret, rbne>>
    /\ XchgFrame

\* The response poll going round for as long as bit 7 is set.
RespAgainNoLimit(res, n) == Bit(res, 7) = 1

\* Line 173: while ((res & 0x80) && --n), with n the count before the test.
RespAgain(res, n) == Bit(res, 7) = 1 /\ n - 1 # 0

\* xchg_spi, lines 73-74, and the loop test of the caller: once the receive
\* buffer is filled the byte d is taken; the loop goes round again or ends.
XchgSpiReceive ==
    /\ pc = "xchg_rbne"
    /\ rbne
    /\ rbne' = FALSE
    /\ \E d \in R1Bytes \cup TokenBytes :
         LET again ==
               IF op = "wait_ready" THEN WaitReady(d, Timer2) = "again"
               ELSE IF op = "rcvr_datablock" THEN TokenWait(d, Timer1) = "again"
               ELSE RespAgain(d, loc.count)
         IN  /\ pc' = IF again THEN "xchg_tbe" ELSE "idle"
             /\ ret' = IF again THEN -1 ELSE d
             /\ loc' = IF op = "send_cmd" THEN [loc EXCEPT !.count = @ - 1, !.res = d]
                                          ELSE [loc EXCEPT !.res = d]
    /\ UNCHANGED <<Timer1, Timer2, op, trans>>
    /\ XchgFrame

XchgTask ==
    \/ WaitReadyEntry
    \/ RcvrTokenEntry
    \/ RespPollEntry
    \/ XchgSpiTransmit
    \/ XchgSpiReceive

NextXchg ==
    \/ XchgTask
    \/ SpiFrameDone
    \/ TIMER3_IRQHandler
    \/ TickUntilExpiry

\* The task and the tick interrupt run; nothing obliges the SPI to raise a
\* flag.
SpecXchgFair ==
    /\ InitDma
    /\ [][NextXchg]_vars
    /\ WF_vars(XchgTask)
    /\ WF_vars(TickUntilExpiry)

\* C14: every byte exchange, response wait, ready wait and token wait ends
\* after a bounded number of iterations or ticks, even if the flag or the
\* byte it waits for never arrives: a wait that has begun returns.
C14_WaitsReturn ==
    [](pc \in {"xchg_tbe", "xchg_rbne"} => <>(pc = "idle"))

(***************************************************************************)
(* The timeout counters: Timer1 and Timer2 of the driver, Timeout_ms of    *)
(* the transport.  Task context arms them (wait_ready, rcvr_datablock,     *)
(* hal_timer_start); the tick handlers count them down.  A handler runs    *)
(* to its end before the task continues, and arming is a single store.     *)
(***************************************************************************)
MaxTimeoutMs == 2

\* hal_timer_is_expired.
hal_timer_is_expired == Timeout_ms = 0

\* The tick handler of the transport, lines 309-311.
HalTickCounter(t) == IF t > 0 THEN t - 1 ELSE t

TimerFrame ==
    UNCHANGED <<Stat, Timer1, Timer2, CardType, cs, fclk, pc, stack, loc, obs, ticks,
                g_dma_status, chan, spi_dma, rbne, trans, isr, card, test, msc, appVars, ctx, dobs>>

\* hal_timer_start(ms).
HalTimerStart ==
    /\ TaskIs("idle")
    /\ \E ms \in 0..MaxTimeoutMs :
         /\ Timeout_ms' = ms
         /\ ret' = ms
    /\ op' = "hal_timer_start"
    /\ TimerFrame

\* TIMER3_IRQHandler of the transport.
HalTIMER3_IRQHandler ==
    /\ Timeout_ms' = HalTickCounter(Timeout_ms)
    /\ UNCHANGED <<op, ret>>
    /\ TimerFrame

NextTimers ==
    \/ NextXchg
    \/ HalTimerStart
    \/ HalTIMER3_IRQHandler

SpecTimers == InitDma /\ [][NextTimers]_vars

TickStep == TIMER3_IRQHandler \/ TickUntilExpiry \/ HalTIMER3_IRQHandler

\* C15: no timeout counter underflows.  Each counter stays between zero
\* and the largest value it is armed with; a tick never raises a counter,
\* lowers a single-tick counter by at most one, and leaves a counter that
\* is zero at zero, wherever the task stands between its arming stores.
C15_NoUnderflow ==
    /\ [](/\ Timer1 \in 0..InitTimeoutMs
          /\ Timer2 \in 0..ReadyTimeoutMs
          /\ Timeout_ms \in 0..MaxTimeoutMs)
    /\ [][TickStep =>
            /\ Timer1' <= Timer1 /\ (Timer1 = 0 => Timer1' = 0)
            /\ Timer2' <= Timer2 /\ (Timer2 = 0 => Timer2' = 0)
            /\ Timeout_ms' <= Timeout_ms /\ (Timeout_ms = 0 => Timeout_ms' = 0)
            /\ TIMER3_IRQHandler => Timer1' \in {Timer1, Timer1 - 1}
                                    /\ Timer2' \in {Timer2, Timer2 - 1}
            /\ HalTIMER3_IRQHandler => Timeout_ms' \in {Timeout_ms, Timeout_ms - 1}]_vars

\* The driver's handler has run with Timer2 at zero and Timer1 running,
\* and the transport's counter, armed above zero, has been counted down to
\* expiry.
C15_Witness ==
    /\ Timer2 = 0
    /\ Timer1 = ReadyTimeoutMs - 1
    /\ ticks = 1
    /\ op = "hal_timer_start" /\ ret > 0
    /\ hal_timer_is_expired

(***************************************************************************)
(* Block contents.  A card keeps one 512-byte block per address; a write   *)
(* it answers with "data accepted" replaces the block at the command's     *)
(* address with the bytes of the data packet, a read it answers with the   *)
(* start token is followed by the block at the command's address.  The     *)
(* driver moves the bytes with xmit_spi_polling and rcvr_spi_polling.  A   *)
(* single-block call is taken as one step; the card's answers (R1 byte,    *)
(* readiness, data response, token) are its inputs.                        *)
(***************************************************************************)
Zeros == [i \in 1..BlockLen |-> 0]

Ones == [i \in 1..BlockLen |-> FILL]

Contents == {Zeros, Ones}

\* sd_test.cpp lines 69-71: _test_pattern_buffer[i] = i % 256.
TestPattern == [i \in 1..BlockLen |-> (i - 1) % 256]

\* The addresses the commands of this model can carry.
Addresses == {CmdAddress(ct, s) : ct \in {CT_MMC, CT_SD2 + CT_BLOCK}, s \in Sectors}

\* xmit_spi_polling(buff, btr): the bytes put on the bus, in order.
xmit_spi_polling(buff, btr) == [i \in 1..btr |-> buff[i]]

\* rcvr_spi_polling storing the bytes from the second byte on.
rcvr_spi_polling_skip(wire, btr) == [i \in 1..btr |-> wire[IF i < btr THEN i + 1 ELSE i]]

\* rcvr_spi_polling(buff, btr): the buffer after the bytes `wire` came in.
rcvr_spi_polling(wire, btr) == [i \in 1..btr |-> wire[i]]

\* sd_write_blocks(buff, sector, 1): result and the card afterwards.
WriteBlock(buff, sector, r1, ready, resp) ==
    LET addr   == CmdAddress(CardType, sector)
        sent   == r1 = 0 /\ ready
        packet == xmit_spi_polling(buff, BlockLen)
        ok     == sent /\ XmitOk(WriteToken(FALSE), resp)
    IN  [res  |-> IF WriteGate(Stat, 1) # -1 THEN WriteGate(Stat, 1)
                  ELSE CountResult(IF ok THEN 0 ELSE 1),
         card |-> IF WriteGate(Stat, 1) = -1 /\ sent /\ resp % 32 = 5
                  THEN [card EXCEPT ![addr] = packet] ELSE card]

\* sd_read_blocks(buff, sector, 1): result and the buffer afterwards.
ReadBlock(buff, sector, r1, token) ==
    LET addr == CmdAddress(CardType, sector)
        ok   == r1 = 0 /\ TokenOk(token)
    IN  [res  |-> IF ReadGate(Stat, 1) # -1 THEN ReadGate(Stat, 1)
                  ELSE CountResult(IF ok THEN 0 ELSE 1),
         buff |-> IF ReadGate(Stat, 1) = -1 /\ ok
                  THEN rcvr_spi_polling(card[addr], BlockLen) ELSE buff]

DataFrame ==
    UNCHANGED <<Stat, CardType, fclk, pc, stack, loc, obs, ticks, Timer1, Timer2,
                g_dma_status, chan, spi_dma, rbne, trans, isr, Timeout_ms, msc, appVars, ctx, dobs>>

\* The driver call made by a step of the self-test, with its result.
Called(name, res) ==
    /\ op' = name
    /\ ret' = res
    /\ cs' = Deselect
    /\ DataFrame

\* Lines 58-64: back up the sector.
TestBackup ==
    /\ TaskIs("idle")
    /\ test.step = "start"
    /\ \E r1 \in R1Bytes, token \in TokenBytes :
         LET r == ReadBlock(test.original, test.sector, r1, token)
         IN  /\ test' = [test EXCEPT !.original = r.buff,
                                     !.step = IF r.res # RES_OK THEN "done" ELSE "backed_up"]
             /\ Called("read", r.res)
    /\ UNCHANGED card

\* Lines 66-80: fill the pattern and write it.
TestWritePattern ==
    /\ TaskIs("idle")
    /\ test.step = "backed_up"
    /\ \E r1 \in R1Bytes, ready \in BOOLEAN, resp \in DataResps :
         LET w == WriteBlock(TestPattern, test.sector, r1, ready, resp)
         IN  /\ test' = [test EXCEPT !.pattern = TestPattern,
                                     !.step = IF w.res # RES_OK THEN "write_failed"
                                              ELSE "written"]
             /\ card' = w.card
             /\ Called("write", w.res)

\* Lines 74-78: after a failed write, try to put the original back; the
\* result is not looked at.
TestRestoreAfterFailure ==
    /\ TaskIs("idle")
    /\ test.step = "write_failed"
    /\ \E r1 \in R1Bytes, ready \in BOOLEAN, resp \in DataResps :
         LET w == WriteBlock(test.original, test.sector, r1, ready, resp)
         IN  /\ test' = [test EXCEPT !.step = "done", !.restores = @ + 1]
             /\ card' = w.card
             /\ Called("write", w.res)

\* Lines 82-91: clear the read-back buffer and read the sector.
TestReadBack ==
    /\ TaskIs("idle")
    /\ test.step = "written"
    /\ \E r1 \in R1Bytes, token \in TokenBytes :
         LET r == ReadBlock(Zeros, test.sector, r1, token)
         IN  /\ test' = [test EXCEPT !.readback = r.buff,
                                     !.step = IF r.res # RES_OK THEN "done" ELSE "read_back"]
             /\ Called("read", r.res)
    /\ UNCHANGED card

\* Lines 102-111: write the original back; the comparison of lines 93-100
\* only prints.
TestRestore ==
    /\ TaskIs("idle")
    /\ test.step = "read_back"
    /\ \E r1 \in R1Bytes, ready \in BOOLEAN, resp \in DataResps :
         LET w == WriteBlock(test.original, test.sector, r1, ready, resp)
         IN  /\ test' = [test EXCEPT !.step = "done", !.result = w.res = RES_OK,
                                     !.restores = @ + 1]
             /\ card' = w.card
             /\ Called("write", w.res)

NextData ==
    \/ TestBackup
    \/ TestWritePattern
    \/ TestRestoreAfterFailure
    \/ TestReadBack
    \/ TestRestore

\* An initialized card of any type with any contents, the self-test about
\* to run on any sector; test.before remembers the sector's contents.
InitData ==
    /\ TransportInit
    /\ Stat = 0
    /\ Timer1 = InitTimeoutMs
    /\ Timer2 = ReadyTimeoutMs
    /\ CardType \in {CT_MMC, CT_SD1, CT_SD2, CT_SD2 + CT_BLOCK}
    /\ cs = "high"
    /\ fclk = "fast"
    /\ pc = "idle"
    /\ stack = <<>>
    /\ loc = LocInit
    /\ op = "status"
    /\ ret = 0
    /\ obs = ObsInit
    /\ ticks = 0
    /\ card \in [Addresses -> Contents]
    /\ \E s \in Sectors :
         test = [TestIdle EXCEPT !.step = "start", !.sector = s,
                                 !.before = card[CmdAddress(CardType, s)]]

SpecData == InitData /\ [][NextData]_vars

TestAddress == CmdAddress(CardType, test.sector)

\* C16: a write of the pattern that returned Ok followed by a read of the
\* same sector that returned Ok yields exactly the bytes written, and the
\* card holds them; writing the original contents back with Ok leaves the
\* sector as it was before the test.
C16_RoundTrip ==
    /\ test.step = "backed_up" => test.original = test.before
    /\ test.step = "read_back" =>
         /\ test.readback = TestPattern
         /\ test.pattern = TestPattern
         /\ card[TestAddress] = TestPattern
    /\ test.step = "done" /\ test.result => card[TestAddress] = test.before

\* The self-test has passed on a byte-addressed card, on the sector whose
\* address wraps, and has put back contents that differ from the pattern.
C16_Witness ==
    /\ test.step = "done"
    /\ test.result
    /\ test.readback = TestPattern
    /\ card[TestAddress] = Ones
    /\ ~HasFlag(CardType, CT_BLOCK)
    /\ test.sector = 8388609

(***************************************************************************)
(* The two paths compared on what reaches the caller's buffer.             *)
(***************************************************************************)
\* The receive channel armed by hal_spi_dma_read_start still owes units to
\* the caller's buffer.
DmaReadOwes ==
    /\ spi_dma = {"RX"}
    /\ chan.rx.en
    /\ chan.rx.mem \in Buffers
    /\ chan.rx.cnt > 0

C18_StatusPure ==
    /\ [](op = "status" => ret = Stat /\ pc = "idle")
    /\ [][SdStatus =>
            /\ ret' = Stat
            /\ UNCHANGED <<Stat, Timer1, Timer2, CardType, cs, fclk, pc, stack, loc>>]_vars
    /\ [][TIMER3_IRQHandler \/ TickUntilExpiry => UNCHANGED <<Stat, op, ret>>]_vars

\* sd_status was called on an initialized card and a tick has run since
\* the time base started.
C18_Witness ==
    /\ op = "status"
    /\ ret = 0
    /\ ticks = 1
    /\ Timer2 = 0

(***************************************************************************)
(* Application commands                                                    *)
(***************************************************************************)
\* The frame of CMD55 with argument 0: 0x77, four zero bytes, 0x01.
Cmd55Frame == <<119, 0, 0, 0, 0, 1>>

CmdCodes == 0..255

SampleArgs == {0, 305419896, 2147483647}

\* send_cmd(c, a) called with the task idle.
SendCmdCall ==
    /\ TaskIs("idle")
    /\ \E c \in CmdCodes, a \in SampleArgs : Call(c, a, "idle", LocInit)
    /\ op' = "send_cmd"
    /\ ret' = -1
    /\ obs' = ObsInit
    /\ UNCHANGED <<Stat, Timer1, Timer2, CardType, cs, fclk>>
    /\ TaskFrame

NextSendCmd ==
    \/ SendCmdCall
    \/ SendCmdSteps
    \/ TickUntilExpiry

SpecSendCmd == Init /\ [][NextSendCmd]_vars

\* C20: the six frame bytes are 0x40|cmd, the four argument bytes from the
\* most significant to the least significant, and a CRC byte that is 0x95
\* for CMD0, 0x87 for CMD8 and 0x01 for every other command.
C20_FrameBytes ==
    [][SendCmdFrame =>
         LET f == obs'.frames[Len(obs'.frames)]
         IN  /\ Len(obs'.frames) = Len(obs.frames) + 1
             /\ Len(f) = 6
             /\ f[1] = 64 + (loc.cmd % 64)
             /\ \A i \in 2..5 : f[i] \in 0..255
             /\ ((f[2] * 256 + f[3]) * 256 + f[4]) * 256 + f[5] = loc.arg
             /\ f[6] = (IF loc.cmd = 0 THEN 149 ELSE IF loc.cmd = 8 THEN 135 ELSE 1)]_vars

\* The frame of CMD8 with argument 0x12345678 has gone out, and so has the
\* frame of an application command after its CMD55.
C20_Witness ==
    \/ obs.frames = <<<<72, 18, 52, 86, 120, 135>>>>
    \/ /\ Len(obs.frames) = 2
       /\ obs.frames[2] = <<64 + 23, 127, 255, 255, 255, 1>>

(***************************************************************************)
(* The response poll of send_cmd                                           *)
(***************************************************************************)
\* The response exchanges made so far by the poll that is running or has
\* just returned.
RespExchanges == RespAttempts - loc.count

\* C21: after the frame send_cmd makes at least one and at most 10 response
\* exchanges, stops at the first byte with bit 7 clear and returns it; when
\* none of the 10 bytes has bit 7 clear it returns a byte with bit 7 set.
C21_ResponsePoll ==
    /\ [](/\ op = "send_cmd" => RespExchanges \in 0..10
          /\ op = "send_cmd" /\ pc \in {"xchg_tbe", "xchg_rbne"} =>
               /\ RespExchanges < 10
               /\ RespExchanges > 0 => loc.res >= 128
          /\ op = "send_cmd" /\ pc = "idle" =>
               /\ RespExchanges \in 1..10
               /\ ret = loc.res
               /\ ret < 128 \/ RespExchanges = 10
          /\ \A d \in RespDelays, r \in R1Bytes :
               PollResp(d, r, RespAttempts) = (IF d < 10 THEN r ELSE 255))
    /\ [][XchgSpiReceive /\ op = "send_cmd" =>
            /\ RespExchanges' = RespExchanges + 1
            /\ loc'.res < 128 => pc' = "idle" /\ ret' = loc'.res
            /\ loc'.res >= 128 /\ RespExchanges' < 10 => pc' = "xchg_tbe"
            /\ loc'.res >= 128 /\ RespExchanges' = 10 => pc' = "idle" /\ ret' = loc'.res]_vars

\* The poll has returned the byte 0x01 at its tenth exchange, after nine
\* bytes with bit 7 set.
C21_Witness ==
    /\ op = "send_cmd"
    /\ pc = "idle"
    /\ RespExchanges = 10
    /\ ret = 1

(***************************************************************************)
(* sd_init: the legacy branch                                              *)
(***************************************************************************)
\* send_cmd(c, a) is called and will return to position `back`.
Calls(c, a, back) ==
    /\ pc' = "send_cmd"
    /\ loc'.cmd = c
    /\ loc'.arg = a
    /\ Head(stack').pc = back

\* C22: with CMD0 answered 0x01 and CMD8 not answered 0x01, sd_init probes
\* ACMD41 with argument 0; a response <= 1 gives SD v1 and the retry command
\* ACMD41, any other response MMC and the retry command CMD1; the retry
\* command is repeated with argument 0 until it returns 0 or the counter
\* has expired; the type is kept only if the counter has not expired and
\* CMD16 with argument 512 returns 0, and is 0 otherwise.
C22_LegacyBranch ==
    /\ [](InitReturned /\ obs.r0 = 1 /\ obs.r8 \notin {-1, 1} =>
            /\ CardType \in {0, 2, 1}
            /\ CardType # 0 <=> (~obs.expired /\ obs.r16 = 0)
            /\ CardType # 0 => obs.r41 = 0)
    /\ [][InitCmd0 /\ loc.res = 1 => Calls(8, 426, "init_cmd8")]_vars
    /\ [][InitCmd8 /\ loc.res # 1 => Calls(128 + 41, 0, "init_probe")]_vars
    /\ [][InitProbe =>
            /\ loc.res <= 1 => loc'.ty = 2 /\ loc'.icmd = 128 + 41
            /\ loc.res > 1 => loc'.ty = 1 /\ loc'.icmd = 1
            /\ pc' = "init_v1_loop"]_vars
    /\ [][InitV1Loop =>
            IF Timer1 # 0 THEN Calls(loc.icmd, 0, "init_v1_res") /\ loc'.ty = loc.ty
            ELSE pc' = "init_v1_len" /\ loc' = loc]_vars
    /\ [][InitV1Res =>
            /\ pc' = (IF loc.res = 0 THEN "init_v1_len" ELSE "init_v1_loop")
            /\ loc' = loc]_vars
    /\ [][InitV1Len =>
            IF Timer1 # 0 THEN Calls(16, 512, "init_v1_type") /\ loc'.ty = loc.ty
            ELSE pc' = "init_end" /\ loc'.ty = 0]_vars
    /\ [][InitV1Type =>
            /\ pc' = "init_end"
            /\ loc'.ty = (IF loc.res = 0 THEN loc.ty ELSE 0)]_vars
    /\ [][InitEnd => CardType' = loc.ty]_vars

\* sd_init has returned with an MMC card: CMD8 was not answered 0x01, the
\* probe was answered above 1, CMD1 came back 0 in time and CMD16 was
\* accepted.
C22_Witness ==
    /\ InitReturned
    /\ obs.r0 = 1
    /\ obs.r8 \notin {-1, 1}
    /\ CardType = 1
    /\ obs.r16 = 0
    /\ obs.r41 = 0

(***************************************************************************)
(* sd_init: the power-up clocks                                            *)
(***************************************************************************)
\* The frame of CMD0 is about to be, or has been, sent by sd_init.
Cmd0Framed ==
    /\ op = "init"
    /\ \/ pc = "sc_frame" /\ loc.cmd = 0
       \/ obs.frames # <<>>

\* C23 as stated: at least 74 dummy bytes have been clocked out with
\* chip-select high before the first byte of CMD0.
C23_SeventyFourBytes == Cmd0Framed => obs.dummies >= 74

\* C23: before the first byte of CMD0 is transmitted, sd_init has set the
\* slow bus speed and clocked out 10 dummy 0xFF bytes, that is 80 clock
\* cycles and so at least 74 clock cycles, while chip-select is high.
C23_PowerUpClocks ==
    /\ [](Cmd0Framed => obs.dummies = 10 /\ 8 * obs.dummies >= 74)
    /\ [][SdInit /\ pc' = "send_cmd" =>
            /\ cs' = "high"
            /\ fclk' = "slow"
            /\ loc'.cmd = 0
            /\ obs'.frames = <<>>]_vars
    /\ [][SendCmdFrame /\ op = "init" /\ loc.cmd = 0 =>
            /\ fclk = "slow"
            /\ obs.frames = <<>>
            /\ Head(obs'.frames) = <<64, 0, 0, 0, 0, 149>>]_vars

\* The frame of CMD0 has just been sent.
C23_Witness ==
    /\ op = "init"
    /\ obs.frames = <<<<64, 0, 0, 0, 0, 149>>>>
    /\ obs.r0 = -1
    /\ fclk = "slow"
    /\ obs.dummies = 10

(***************************************************************************)
(* Block I/O: the address sent to the card                                 *)
(***************************************************************************)
\* The four block commands: CMD17, CMD18, CMD24, CMD25.
BlockCmds == {17, 18, 24, 25}

\* C24: the argument of CMD17/CMD18 and CMD24/CMD25 is the requested sector
\* on a block-addressed card and the true byte address sector * 512
\* otherwise, for every 32-bit sector, so that two sectors never share an
\* argument.
C24_TrueAddress ==
    [][SendCmdFrame /\ op \in {"read", "write"} /\ loc.cmd \in BlockCmds =>
         IF (CardType \div 8) % 2 = 1
         THEN loc.arg = obs.sector
         ELSE loc.arg % 512 = 0 /\ loc.arg \div 512 = obs.sector]_vars

(***************************************************************************)
(* sd_read_blocks: the stop command                                        *)
(***************************************************************************)
\* The frame of CMD12 with argument 0.
Cmd12Frame == <<64 + 12, 0, 0, 0, 0, 1>>

\* C25: a read of one block uses CMD17 and sends no CMD12; a read of more
\* than one block uses CMD18 and, when CMD18 was accepted, sends CMD12
\* exactly once, after the last attempted data block and before chip-select
\* is deasserted, whether or not all blocks were received; when CMD18 is
\* rejected no CMD12 is sent.
C25_ReadStop ==
    /\ [](op = "read" /\ obs.reqCount = 1 =>
            /\ obs.stops = 0
            /\ \A i \in DOMAIN obs.frames : obs.frames[i][1] = 64 + 17)
    /\ [](op = "read" /\ obs.reqCount > 1 =>
            /\ obs.stops <= 1
            /\ \A i \in DOMAIN obs.frames :
                  obs.frames[i][1] = 64 + 18 \/ obs.frames[i] = Cmd12Frame)
    /\ [](op = "read" /\ pc = "rd_token" =>
            /\ obs.stops = 0
            /\ Len(obs.frames) = 1 /\ obs.frames[1][1] \in {64 + 17, 64 + 18}
            /\ cs = "low")
    /\ [][ReadCmdDone =>
            /\ loc.res = 0 => pc' = "rd_token"
            /\ loc.res # 0 => pc' = "rd_end" /\ obs.stops = 0]_vars
    /\ [][ReadToken /\ pc' # "rd_token" =>
            IF obs.reqCount = 1 THEN pc' = "rd_end"
            ELSE Calls(12, 0, "rd_stop") /\ cs = "low"]_vars
    /\ [][SendCmdFrame /\ op = "read" /\ loc.cmd = 12 =>
            /\ obs.reqCount > 1
            /\ obs.stops = 0
            /\ cs = "low"
            /\ obs'.frames = <<Cmd12Frame>>]_vars
    /\ [][ReadStop =>
            /\ obs.frames = <<Cmd12Frame>>
            /\ obs'.stops = 1
            /\ pc' = "rd_end"
            /\ cs = "low" /\ cs' = "low"]_vars
    /\ [][ReadEnd /\ obs.reqCount > 1 =>
            /\ cs' = "high"
            /\ obs'.stops = obs.stops
            /\ IF obs.blocks > 0 \/ obs.failed
               THEN obs.stops = 1 /\ obs.frames = <<Cmd12Frame>>
               ELSE obs.stops = 0 /\ loc.res # 0]_vars

\* A read of several blocks has returned short: CMD18 was accepted, a block
\* arrived, a later start token did not, and CMD12 went out once.
C25_Witness ==
    /\ op = "read"
    /\ pc = "idle"
    /\ obs.reqCount > 1
    /\ obs.blocks = 1
    /\ obs.failed
    /\ ret = RES_ERROR
    /\ obs.frames = <<Cmd12Frame>>
    /\ obs.stops = 1

(***************************************************************************)
(* sd_write_blocks: the stop token                                         *)
(***************************************************************************)
\* C26: a write of more than one block uses CMD25 and, when CMD25 was
\* accepted, transmits the stop token 0xFD exactly once, after the last
\* attempted data block and before chip-select is deasserted, also when a
\* data block was rejected or the card stays busy; a write of one block uses
\* CMD24 and transmits no stop token.
C26_StopToken ==
    /\ [](op = "write" /\ obs.reqCount = 1 =>
            /\ obs.stops = 0
            /\ \A i \in DOMAIN obs.frames : obs.frames[i][1] = 64 + 24)
    /\ [](op = "write" /\ obs.reqCount > 1 =>
            /\ obs.stops <= 1
            /\ \A i \in DOMAIN obs.frames :
                  obs.frames[i][1] \in {64 + 55, 64 + 23, 64 + 25})
    /\ [][WriteCmdDone /\ loc.res # 0 => pc' = "wr_end" /\ obs.stops = 0]_vars
    /\ [][WriteWait /\ loc.token \in {252, 254} => obs'.stops = 0]_vars
    /\ [][WriteEnd /\ obs.reqCount > 1 =>
            /\ cs' = "high"
            /\ obs'.stops = obs.stops
            /\ obs.stops = (IF loc.token = 253 THEN 1 ELSE 0)]_vars

(***************************************************************************)
(* The mass-storage layer over the driver (usbd_msc_mem.cpp and the SCSI   *)
(* handlers of usb_device.cpp)                                             *)
(***************************************************************************)
SENSE_LIST_DEEPTH      == 4
NOT_READY              == 2     \* SenseKey::NOT_READY
HARDWARE_ERROR         == 4     \* SenseKey::HARDWARE_ERROR
MEDIUM_NOT_PRESENT     == 58    \* Asc 0x3A
UNRECOVERED_READ_ERROR == 17    \* Asc 0x11
WRITE_FAULT            == 3     \* Asc 0x03
WRITE_PROTECTED        == 39    \* Asc 0x27

\* What sd_ioctl(GET_SECTOR_COUNT) stores for a card that answers.
SectorCounts == {0, 2048}

\* usb_device.cpp lines 531-539: _scsi_sense_code appends to the ring.
_scsi_sense_code(m, skey, asc) ==
    [m EXCEPT !.scsi_sense[m.scsi_sense_tail] = [key |-> skey, ASC |-> asc],
              !.scsi_sense_tail = IF @ + 1 = SENSE_LIST_DEEPTH THEN 0 ELSE @ + 1]

\* The sense entry written last.
LastSense(m) ==
    m.scsi_sense[(m.scsi_sense_tail + SENSE_LIST_DEEPTH - 1) % SENSE_LIST_DEEPTH]

\* usbd_msc_mem.cpp lines 108-113: mem_ready.
mem_ready(m) == IF m.is_media_present THEN 0 ELSE -1

\* usbd_msc_mem.cpp lines 121-131: mem_protected.
mem_protected(m, stat) ==
    IF ~m.is_media_present THEN 1
    ELSE IF HasFlag(sd_status(stat), STA_PROTECT) THEN 1 ELSE 0

\* usbd_msc_mem.cpp lines 142-152 and 163-173: mem_read and mem_write on
\* the driver result res.
mem_transfer(m, res) ==
    IF ~m.is_media_present THEN -1
    ELSE IF res = RES_OK THEN 0 ELSE -1

\* sd_read_blocks and sd_write_blocks as the layer sees them: the gate,
\* then Ok when the card served every block (served) and Error otherwise.
DriverRead(stat, count, served) ==
    IF ReadGate(stat, count) # -1 THEN ReadGate(stat, count)
    ELSE CountResult(IF served THEN 0 ELSE count)

DriverWrite(stat, count, served) ==
    IF WriteGate(stat, count) # -1 THEN WriteGate(stat, count)
    ELSE CountResult(IF served THEN 0 ELSE count)

\* The frame of a step of the mass-storage layer.
MscFrame ==
    UNCHANGED <<Stat, Timer1, Timer2, CardType, cs, fclk, pc, stack, loc, obs, ticks,
                g_dma_status, chan, spi_dma, rbne, trans, isr, Timeout_ms, card, test,
                appVars, ctx, dobs>>

\* main.cpp lines 58-68 with msc_mem_pre_init, usbd_msc_mem.cpp lines 61-86:
\* the layer is set up once, after sd_init, before USB starts.
msc_mem_pre_init ==
    /\ TaskIs("idle")
    /\ msc.step = "boot"
    /\ \E res \in {RES_OK, RES_ERROR}, n \in SectorCounts :
         LET ok == /\ ~HasFlag(Stat, STA_NOINIT)
                   /\ ~HasFlag(sd_status(Stat), STA_NODISK)
                   /\ res = RES_OK
                   /\ n # 0
         IN  /\ msc' = [msc EXCEPT !.step = "run", !.is_media_present = ok]
             /\ IF HasFlag(Stat, STA_NOINIT)
                THEN UNCHANGED <<op, ret>>
                ELSE IF HasFlag(sd_status(Stat), STA_NODISK)
                THEN op' = "status" /\ ret' = sd_status(Stat)
                ELSE op' = "ioctl" /\ ret' = (IF ok THEN RES_OK ELSE res)
    /\ MscFrame

\* usb_device.cpp lines 541-552: TEST UNIT READY.
_scsi_test_unit_ready ==
    /\ TaskIs("idle")
    /\ msc.step = "run"
    /\ msc' = IF mem_ready(msc) # 0
              THEN [_scsi_sense_code(msc, NOT_READY, MEDIUM_NOT_PRESENT)
                      EXCEPT !.request = "ready", !.status = -1]
              ELSE [msc EXCEPT !.request = "ready", !.status = 0]
    /\ UNCHANGED <<op, ret>>
    /\ MscFrame

\* usb_device.cpp lines 581-606 and 641-654: READ(10) up to its first
\* _scsi_process_read, for a request inside the address range.
_scsi_read10 ==
    /\ TaskIs("idle")
    /\ msc.step = "run"
    /\ \E count \in 0 .. MaxCount, served \in BOOLEAN :
         IF mem_ready(msc) # 0
         THEN /\ msc' = [_scsi_sense_code(msc, NOT_READY, MEDIUM_NOT_PRESENT)
                           EXCEPT !.request = "read", !.status = -1]
              /\ UNCHANGED <<op, ret>>
         ELSE LET res == DriverRead(Stat, count, served)
              IN  /\ op' = "read"
                  /\ ret' = res
                  /\ msc' = IF mem_transfer(msc, res) < 0
                            THEN [_scsi_sense_code(msc, HARDWARE_ERROR, UNRECOVERED_READ_ERROR)
                                    EXCEPT !.request = "read", !.status = -1]
                            ELSE [msc EXCEPT !.request = "read", !.status = 0]
    /\ MscFrame

\* usb_device.cpp lines 608-639 and 657-670: WRITE(10) up to its first
\* _scsi_process_write, for a request inside the address range.
_scsi_write10 ==
    /\ TaskIs("idle")
    /\ msc.step = "run"
    /\ \E count \in 0 .. MaxCount, served \in BOOLEAN :
         IF mem_ready(msc) # 0
         THEN /\ msc' = [_scsi_sense_code(msc, NOT_READY, MEDIUM_NOT_PRESENT)
                           EXCEPT !.request = "write", !.status = -1]
              /\ UNCHANGED <<op, ret>>
         ELSE IF mem_protected(msc, Stat) # 0
         THEN /\ msc' = [_scsi_sense_code(msc, NOT_READY, WRITE_PROTECTED)
                           EXCEPT !.request = "write", !.status = -1]
              /\ op' = "status"
              /\ ret' = sd_status(Stat)
         ELSE LET res == DriverWrite(Stat, count, served)
              IN  /\ op' = "write"
                  /\ ret' = res
                  /\ msc' = IF mem_transfer(msc, res) < 0
                            THEN [_scsi_sense_code(msc, HARDWARE_ERROR, WRITE_FAULT)
                                    EXCEPT !.request = "write", !.status = -1]
                            ELSE [msc EXCEPT !.request = "write", !.status = 0]
    /\ MscFrame

NextMsc ==
    \/ msc_mem_pre_init
    \/ _scsi_test_unit_ready
    \/ _scsi_read10
    \/ _scsi_write10

\* The driver after main() called sd_init: initialized with some card
\* type (status 0), or not initialized.
InitMsc ==
    /\ TransportInit
    /\ \E t \in {0, CT_MMC, CT_SD1, CT_SD2, CT_SD2 + CT_BLOCK} :
         /\ CardType = t
         /\ Stat = IF t = 0 THEN STA_NOINIT ELSE 0
    /\ Timer1 = 0
    /\ Timer2 = 0
    /\ cs = "high"
    /\ fclk = "fast"
    /\ pc = "idle"
    /\ stack = <<>>
    /\ loc = LocInit
    /\ op = "init"
    /\ ret = Stat
    /\ obs = ObsInit
    /\ ticks = 0
    /\ card = <<>>
    /\ test = TestIdle

SpecMsc == InitMsc /\ [][NextMsc]_vars

\* A host request that ended in a driver read or write reporting NotReady or
\* Error.
DriverFailed ==
    /\ msc.request \in {"read", "write"}
    /\ op \in {"read", "write"}
    /\ ret \in {1, 3}

\* C27: when a driver read or write reports NotReady or Error, the layer
\* reports medium not present to the host (sense key 2, code 0x3A), and the
\* next host request probes the card again, so that the medium can become
\* present again without a reset.
C27_FailureIsNoMedium ==
    /\ [](DriverFailed =>
            LastSense(msc) = [key |-> 2, ASC |-> 58])
    /\ [][DriverFailed /\ msc' # msc => op' \in {"init", "status"}]_vars

(***************************************************************************)
(* sd_ioctl: unknown codes and the sector count                            *)
(***************************************************************************)
\* sd_ioctl is running on, or has returned for, a code it does not know.
UnknownCode ==
    /\ op = "ioctl"
    /\ \/ pc = "io_end" /\ loc.ioc \notin {0, 1, 2, 3}
       \/ pc = "idle" /\ ret = 4

\* C28: sd_ioctl on an initialized drive with a code other than CTRL_SYNC,
\* GET_SECTOR_COUNT, GET_SECTOR_SIZE and GET_BLOCK_SIZE returns
\* InvalidParameter, sends no card command and stores nothing through buff.
C28_UnknownIoctl ==
    /\ [](UnknownCode =>
            /\ obs.frames = <<>>
            /\ obs.stored.bytes = 0
            /\ obs.csd = <<>>
            /\ obs.blocks = 0 /\ obs.dataBytes = 0)
    /\ [][SdIoctl /\ ret' = -1 /\ loc'.ioc \notin {0, 1, 2, 3} =>
            /\ pc' = "io_end"
            /\ loc'.ires = 4
            /\ cs' = cs]_vars
    /\ [][IoctlEnd /\ loc.ioc \notin {0, 1, 2, 3} =>
            /\ ret' = 4
            /\ obs'.frames = <<>>
            /\ obs'.stored.bytes = 0]_vars
    /\ [][IoctlEnd /\ loc.ioc \in {0, 1, 2, 3} => ret' # 4]_vars

\* sd_ioctl has returned InvalidParameter on an initialized drive.
C28_Witness ==
    /\ op = "ioctl"
    /\ pc = "idle"
    /\ ret = 4
    /\ Stat % 2 = 0
    /\ obs.frames = <<>>
    /\ obs.stored.bytes = 0

\* sd_ioctl(GET_SECTOR_COUNT) has read a CSD and is about to return.
CountDecoded ==
    /\ op = "ioctl"
    /\ pc = "io_end"
    /\ loc.ioc = 1
    /\ obs.csd # <<>>

\* The 22-bit field C_SIZE of a version-1 CSD: byte 7 bits 5..0, byte 8,
\* byte 9.
CSize22(csd) == (csd[8] % 64) * 65536 + csd[9] * 256 + csd[10]

\* C29: for a CSD with structure version 1, GET_SECTOR_COUNT reports
\* (C_SIZE + 1) * 1024 sectors for every value of the 22-bit field C_SIZE;
\* the count is never 0 and never wraps.  The count is compared in two
\* halves: its multiple of 65536 and the rest.
C29_CountV2 ==
    CountDecoded /\ obs.csd[1] \div 64 = 1 =>
        /\ obs.stored.bytes = 4
        /\ obs.stored.hi = (CSize22(obs.csd) + 1) \div 64
        /\ obs.stored.lo = ((CSize22(obs.csd) + 1) % 64) * 1024
        /\ obs.stored.hi # 0 \/ obs.stored.lo # 0

\* C30: GET_SECTOR_COUNT returns Error and stores no count when CMD9 is
\* rejected, when the 16-byte CSD block is not received, or when the
\* structure version of the CSD is neither 0 nor 1; the version-0 formula is
\* applied to version-0 CSDs only.
C30_CountErrors ==
    /\ [](op = "ioctl" /\ pc = "io_end" /\ loc.ioc = 1 /\ obs.csd = <<>> =>
            loc.ires = 1 /\ obs.stored.bytes = 0)
    /\ [][IoctlCsd /\ loc.ioc = 1 /\ loc.res # 0 => pc' = "io_end"]_vars
    /\ [][IoctlToken /\ loc.ioc = 1 /\ pc' = "io_end" /\ obs'.blocks = 0 =>
            obs'.csd = <<>>]_vars
    /\ [](CountDecoded /\ obs.csd[1] \div 64 \notin {0, 1} =>
            loc.ires = 1 /\ obs.stored.bytes = 0)
    /\ [][IoctlEnd /\ loc.ioc = 1 /\ (obs.csd = <<>> \/ obs.csd[1] \div 64 \notin {0, 1}) =>
            ret' = 1 /\ obs'.stored.bytes = 0]_vars

(***************************************************************************)
(* The self-test on a card that does not keep its data                     *)
(***************************************************************************)
\* The card loses a block: the block at some address changes without a
\* write of the driver (worn or failing medium).
CardFault ==
    /\ TaskIs("idle")
    /\ test.step \notin {"none", "done"}
    /\ \E a \in DOMAIN card, c \in Contents :
         /\ c # card[a]
         /\ card' = [card EXCEPT ![a] = c]
    /\ UNCHANGED <<op, ret, cs, test>>
    /\ DataFrame

NextDataFaulty == NextData \/ CardFault

SpecDataFaulty == InitData /\ [][NextDataFaulty]_vars

\* C31: run_read_write_test returns true only if every read and write
\* returned Ok and the 512 bytes read back equal the test pattern written;
\* a data mismatch makes the test fail.
C31_PassMeansVerified ==
    /\ [](test.step = "done" /\ test.result =>
            /\ test.pattern = [i \in 1..512 |-> (i - 1) % 256]
            /\ test.readback = test.pattern)
    /\ [][test'.step = "done" /\ test'.result => ret' = 0]_vars
    /\ [][test.step # "done" /\ test'.step # test.step /\ ret' # 0 =>
            test'.step \in {"done", "write_failed"} /\ ~test'.result]_vars

\* C32: on every path of run_read_write_test on which a write of the test
\* pattern was attempted, a write of the saved original data to the test
\* sector is attempted before the function returns.
C32_AlwaysRestores ==
    test.step = "done" /\ test.pattern # <<>> => test.restores >= 1

(***************************************************************************)
(* The rotary encoder (rotary_encoder.cpp): rotation_isr and key_isr run   *)
(* on one interrupt line and preempt the main loop between any two steps   *)
(* of get_rotation, unless interrupts are globally disabled.               *)
(***************************************************************************)
MaxSteps == 4      \* interrupts taken in one run
MaxNow   == 60     \* largest timer value read
DEBOUNCE_TIME_MS     == 50
ROTATION_DEBOUNCE_MS == 2

\* A value stored in an int8_t.
Int8(x) == ((x + 128) % 256) - 128

\* now - last_interrupt_time in uint32_t arithmetic; both are below 2^31 here.
Elapsed(now, last) == IF now >= last THEN now - last ELSE now - last + 2147483647 + 1

\* The timer values an interrupt can read after time `last`.
Nows(last) == {t \in {last, last + 1, last + 2, last + 51} : t <= MaxNow}

\* The interrupt line being open whatever the global enable says.
InterruptibleAlways(e) == TRUE

\* Lines 94 and 97: eclic_global_interrupt_disable / _enable decide whether
\* an interrupt is taken.
Interruptible(e) == e.ie

EncFrame ==
    UNCHANGED <<Stat, Timer1, Timer2, CardType, cs, fclk, pc, stack, loc, op, ret, obs,
                ticks, g_dma_status, chan, spi_dma, rbne, trans, isr, Timeout_ms, card,
                test, msc, dm, bbb, ctx, dobs>>

\* Lines 29-44: rotation_isr with the line S2 read as RESET or SET.
rotation_isr ==
    /\ Interruptible(enc)
    /\ enc.isrs < MaxSteps
    /\ \E now \in Nows(enc.last_interrupt_time), s2 \in {"RESET", "SET"} :
         LET d == IF s2 = "RESET" THEN -1 ELSE 1
         IN  enc' = IF Elapsed(now, enc.last_interrupt_time) < ROTATION_DEBOUNCE_MS
                    THEN [enc EXCEPT !.isrs = @ + 1]
                    ELSE [enc EXCEPT !.rotation_count = Int8(@ + d),
                                     !.last_interrupt_time = now,
                                     !.net = @ + d,
                                     !.isrs = @ + 1]
    /\ EncFrame

\* Lines 47-54: key_isr.
key_isr ==
    /\ Interruptible(enc)
    /\ enc.isrs < MaxSteps
    /\ \E now \in Nows(enc.last_interrupt_time) :
         enc' = IF Elapsed(now, enc.last_interrupt_time) > DEBOUNCE_TIME_MS
                THEN [enc EXCEPT !.key_pressed_flag = TRUE,
                                 !.last_interrupt_time = now,
                                 !.isrs = @ + 1]
                ELSE [enc EXCEPT !.isrs = @ + 1]
    /\ EncFrame

\* Lines 81-87: is_pressed.
is_pressed ==
    /\ enc.pc = "idle"
    /\ enc.key_pressed_flag
    /\ enc' = [enc EXCEPT !.key_pressed_flag = FALSE]
    /\ EncFrame

\* Lines 91-92: count = 0 and the test of rotation_count; with 0 the call
\* returns 0 at once.
GetRotationTest ==
    /\ enc.pc = "idle"
    /\ enc' = IF enc.rotation_count # 0
              THEN [enc EXCEPT !.count = 0, !.pc = "disable"]
              ELSE [enc EXCEPT !.count = 0]
    /\ EncFrame

\* Line 94: eclic_global_interrupt_disable().
GetRotationDisable ==
    /\ enc.pc = "disable"
    /\ enc' = [enc EXCEPT !.ie = FALSE, !.pc = "read"]
    /\ EncFrame

\* Line 95: count = rotation_count.
GetRotationRead ==
    /\ enc.pc = "read"
    /\ enc' = [enc EXCEPT !.count = enc.rotation_count, !.pc = "reset"]
    /\ EncFrame

\* Line 96: rotation_count = 0.
GetRotationReset ==
    /\ enc.pc = "reset"
    /\ enc' = [enc EXCEPT !.rotation_count = 0, !.pc = "enable"]
    /\ EncFrame

\* Lines 97-99: eclic_global_interrupt_enable() and return count.
GetRotationReturn ==
    /\ enc.pc = "enable"
    /\ enc' = [enc EXCEPT !.ie = TRUE, !.pc = "idle", !.total = @ + enc.count]
    /\ EncFrame

NextEnc ==
    \/ rotation_isr
    \/ key_isr
    \/ is_pressed
    \/ GetRotationTest
    \/ GetRotationDisable
    \/ GetRotationRead
    \/ GetRotationReset
    \/ GetRotationReturn

SpecEnc == Init /\ [][NextEnc]_vars

\* C33: get_rotation returns the net rotation accumulated since the previous
\* call and resets the counter without losing a step: under every
\* interleaving with rotation_isr, the values returned so far plus the
\* counter (plus the value read and not yet returned) equal the net number
\* of steps the ISR counted.
C33_NoStepLost ==
    /\ enc.pc = "idle" => enc.total + enc.rotation_count = enc.net
    /\ enc.pc \in {"disable", "read", "reset"} =>
         enc.total + enc.rotation_count = enc.net
    /\ enc.pc = "enable" =>
         enc.rotation_count = 0 /\ enc.total + enc.count = enc.net

\* get_rotation has returned two steps and a later step in the other
\* direction is pending in the counter.
C33_Witness ==
    /\ enc.pc = "idle"
    /\ enc.total = 2
    /\ enc.rotation_count = -1
    /\ enc.net = 1
\* ---------------------------------------------------------------------
\* The bulk-only transport of the mass-storage class (usb_device.cpp lines
\* 386-680): command wrappers, the SCSI handlers with their address
\* arithmetic, the two bulk endpoints and the host's recovery requests.
\* ---------------------------------------------------------------------

MEM_LUN_NUM             == 1     \* usbd_conf.h line 69
MSC_MEDIA_PACKET_SIZE   == 2048  \* usbd_conf.h line 68
MSC_INTERFACE           == 2     \* usbd_conf.h line 36
MSC_IN_EP               == 131   \* EP_IN(3U), usbd_conf.h line 56
MSC_OUT_EP              == 3     \* EP_OUT(3U), usbd_conf.h line 57
USBD_STD_INQUIRY_LENGTH == 36    \* usbd_msc_mem.h line 14
ILLEGAL_REQUEST         == 5     \* SenseKey::ILLEGAL_REQUEST
INVALID_CDB             == 32    \* Asc 0x20
ADDRESS_OUT_OF_RANGE    == 33    \* Asc 0x21
card_block_size         == 512   \* usbd_msc_mem.cpp line 38

\* The sector count the card reported to msc_mem_pre_init, and the number
\* of command wrappers the host sends.
BlockCount == 2048
MaxCmds    == 2

\* The wrappers the host sends: well-formed ones for LUN 0 and LUN 1 (device
\* to host with no data, or host to device with 512 bytes; for READ(10) and
\* WRITE(10) either direction and a transfer length matching the request or
\* not), and malformed ones (wrong length or signature, LUN 2, command block
\* length 0 or 17).
ScsiCmds == {"TEST_UNIT_READY", "REQUEST_SENSE", "INQUIRY", "READ_CAPACITY_10",
             "UNSUPPORTED"}

Extents == {[lba |-> 1, n |-> 1], [lba |-> 1, n |-> 5], [lba |-> 2047, n |-> 5]}

Cbws ==
    {[ok |-> TRUE, lun |-> l, cblen |-> 10, flags |-> f, dlen |-> 512 - 4 * f,
      cmd |-> c, lba |-> 0, n |-> 0] :
        l \in {0, 1}, f \in {0, 128}, c \in ScsiCmds}
    \cup
    {[ok |-> TRUE, lun |-> 0, cblen |-> 10, flags |-> f, dlen |-> d, cmd |-> c,
      lba |-> x.lba, n |-> x.n] :
        f \in {0, 128}, d \in {512, 2560}, c \in {"READ_10", "WRITE_10"},
        x \in Extents}
    \cup
    {[NoCbw EXCEPT !.cmd = "TEST_UNIT_READY", !.cblen = 10],
     [NoCbw EXCEPT !.cmd = "TEST_UNIT_READY", !.ok = TRUE, !.lun = 2, !.cblen = 10],
     [NoCbw EXCEPT !.cmd = "TEST_UNIT_READY", !.ok = TRUE, !.cblen = 0],
     [NoCbw EXCEPT !.cmd = "READ_10", !.ok = TRUE, !.cblen = 17, !.flags = 128],
     [NoCbw EXCEPT !.cmd = "READ_10", !.ok = TRUE, !.lun = 1, !.cblen = 10,
                   !.flags = 128, !.dlen = 512, !.lba = 1, !.n = 1],
     [NoCbw EXCEPT !.cmd = "WRITE_10", !.ok = TRUE, !.lun = 1, !.cblen = 10,
                   !.dlen = 512, !.lba = 1, !.n = 1]}

\* What a handler step cannot decide by itself: whether the card served the
\* blocks asked of the driver, the value an access to element lun >=
\* MEM_LUN_NUM of a per-LUN array reads, and whether a store to such an
\* element lands on the member that follows the array.
Envs == [served : BOOLEAN, oobv : {0, card_block_size, BlockCount}, alias : BOOLEAN]

\* _scsi_sense_code on the layer's sense list, and the two return values.
Sense(s, key, asc) == [s EXCEPT !.m = _scsi_sense_code(s.m, key, asc)]
Fails(s)           == [s EXCEPT !.b.rc = -1, !.b.failed = TRUE]
Passes(s)          == [s EXCEPT !.b.rc = 0]

\* The endpoint calls of the device core as this layer uses them.
usbd_ep_stall(s, ep) ==
    IF ep = MSC_IN_EP THEN [s EXCEPT !.b.ep_in.stalled = TRUE]
    ELSE [s EXCEPT !.b.ep_out.stalled = TRUE]

usbd_ep_recev(s, what) == [s EXCEPT !.b.ep_out.rx = what]
usbd_ep_send(s, what)  == [s EXCEPT !.b.ep_in.tx = what]

\* An access to element lun of a per-LUN array.
Indexed(s, lun) == IF lun >= MEM_LUN_NUM THEN [s EXCEPT !.b.oob = TRUE] ELSE s

\* usbd_msc_mem.cpp lines 51-52 and 79-80: mem_block_size[0], mem_block_len[0].
mem_block_size(m) == card_block_size
mem_block_len(m)  == IF m.is_media_present THEN BlockCount ELSE 0

\* scsi_blk_size[lun] and scsi_blk_nbr[lun] as read.
BlkSize(s, lun, e) == IF lun < MEM_LUN_NUM THEN s.b.scsi_blk_size ELSE e.oobv
BlkNbr(s, lun, e)  == IF lun < MEM_LUN_NUM THEN s.b.scsi_blk_nbr ELSE e.oobv

\* Lines 468-475: _msc_bbb_csw_send.
_msc_bbb_csw_send(s, csw_status) ==
    usbd_ep_recev(usbd_ep_send([s EXCEPT !.b.bbb_state = "BBB_IDLE",
                                         !.b.csw = csw_status], "csw"), "cbw")

\* Lines 477-484: _msc_bbb_clrfeature.
_msc_bbb_clrfeature(s, ep_num) ==
    IF s.b.bbb_status = "ERROR"
    THEN [usbd_ep_stall(s, MSC_IN_EP) EXCEPT !.b.bbb_status = "NORMAL"]
    ELSE IF (ep_num \div 128) % 2 = 1 /\ s.b.bbb_status # "RECOVERY"
    THEN _msc_bbb_csw_send(s, "CMD_FAILED")
    ELSE s

\* Lines 486-492: _msc_bbb_data_send.
_msc_bbb_data_send(s) ==
    usbd_ep_send([s EXCEPT !.b.bbb_state = "BBB_SEND_DATA"], "data")

\* Lines 494-504: _msc_bbb_abort.
_msc_bbb_abort(s) ==
    LET s1 == IF /\ s.b.bbb_cbw.flags = 0
                 /\ s.b.bbb_cbw.dlen # 0
                 /\ s.b.bbb_status = "NORMAL"
              THEN usbd_ep_stall(s, MSC_OUT_EP)
              ELSE s
        s2 == usbd_ep_stall(s1, MSC_IN_EP)
    IN  IF s2.b.bbb_status = "ERROR" THEN usbd_ep_recev(s2, "cbw") ELSE s2

\* Lines 541-552: _scsi_test_unit_ready.
ScsiTestUnitReady(s, lun) ==
    IF s.b.bbb_cbw.dlen # 0
    THEN Fails(Sense(s, ILLEGAL_REQUEST, INVALID_CDB))
    ELSE IF mem_ready(s.m) # 0
    THEN Fails(Sense(s, NOT_READY, MEDIUM_NOT_PRESENT))
    ELSE Passes([s EXCEPT !.b.bbb_datalen = 0])

\* Lines 554-563: _scsi_inquiry with an allocation length of 36; the page
\* of a LUN >= MEM_LUN_NUM is whatever follows the table.
_scsi_inquiry(s, lun, e) ==
    Passes([Indexed(s, lun) EXCEPT !.b.bbb_datalen =
               IF lun < MEM_LUN_NUM \/ e.alias THEN USBD_STD_INQUIRY_LENGTH ELSE 0])

\* Lines 565-579: _scsi_read_capacity10.  For lun = 1 the two stores go past
\* the arrays: scsi_blk_size[1] is where scsi_blk_nbr[0] lies and
\* scsi_blk_nbr[1] where scsi_blk_addr lies (usb_types.h lines 221-224).
_scsi_read_capacity10(s, lun, e) ==
    LET t == Indexed(s, lun)
    IN  Passes(IF lun < MEM_LUN_NUM
               THEN [t EXCEPT !.b.scsi_blk_nbr = mem_block_len(s.m),
                              !.b.scsi_blk_size = mem_block_size(s.m),
                              !.b.bbb_datalen = 8]
               ELSE IF e.alias
               THEN [t EXCEPT !.b.scsi_blk_addr = e.oobv,
                              !.b.scsi_blk_nbr = e.oobv,
                              !.b.bbb_datalen = 8]
               ELSE [t EXCEPT !.b.bbb_datalen = 8])

\* Lines 674-680: _scsi_check_address_range, TRUE when the range is refused.
_scsi_check_address_range(s, lun, blk_offset, blk_nbr, e) ==
    blk_offset + blk_nbr > BlkNbr(s, lun, e)

\* The block count handed to the driver, lines 643 and 659: len /
\* scsi_blk_size[lun], a division by zero leaving any count.
ChunkCount(len, size, e) == IF size = 0 THEN e.oobv ELSE len \div size

\* Lines 641-654: _scsi_process_read.  sector and before record the block
\* address handed to mem_read and the blocks earlier chunks transferred.
_scsi_process_read(s, lun, e) ==
    LET len   == Min(s.b.scsi_blk_len, MSC_MEDIA_PACKET_SIZE)
        count == ChunkCount(len, BlkSize(s, lun, e), e)
        t     == [Indexed(s, lun) EXCEPT !.b.called = TRUE,
                                         !.b.sector = s.b.scsi_blk_addr,
                                         !.b.before = s.b.done]
    IN  IF mem_transfer(s.m, DriverRead(Stat, count, e.served)) < 0
        THEN Fails(Sense(t, HARDWARE_ERROR, UNRECOVERED_READ_ERROR))
        ELSE Passes([usbd_ep_send(t, "data") EXCEPT
                       !.b.scsi_blk_addr = @ + len,
                       !.b.scsi_blk_len = @ - len,
                       !.b.done = @ + count,
                       !.b.bbb_state = IF s.b.scsi_blk_len - len = 0
                                       THEN "BBB_LAST_DATA_IN" ELSE @])

\* Lines 657-672: _scsi_process_write.
_scsi_process_write(s, lun, e) ==
    LET len   == Min(s.b.scsi_blk_len, MSC_MEDIA_PACKET_SIZE)
        count == ChunkCount(len, BlkSize(s, lun, e), e)
        t     == [Indexed(s, lun) EXCEPT !.b.called = TRUE,
                                         !.b.sector = s.b.scsi_blk_addr,
                                         !.b.before = s.b.done]
        u     == [t EXCEPT !.b.scsi_blk_addr = @ + len,
                           !.b.scsi_blk_len = @ - len,
                           !.b.done = @ + count]
    IN  IF mem_transfer(s.m, DriverWrite(Stat, count, e.served)) < 0
        THEN Fails(Sense(t, HARDWARE_ERROR, WRITE_FAULT))
        ELSE Passes(IF u.b.scsi_blk_len = 0
                    THEN _msc_bbb_csw_send(u, "CMD_PASSED")
                    ELSE usbd_ep_recev(u, "data"))

\* Lines 581-606: _scsi_read10.
ScsiRead10(s, lun, e) ==
    IF s.b.bbb_state = "BBB_IDLE"
    THEN IF s.b.bbb_cbw.flags # 128
         THEN Fails(Sense(s, ILLEGAL_REQUEST, INVALID_CDB))
         ELSE IF mem_ready(s.m) # 0
         THEN Fails(Sense(s, NOT_READY, MEDIUM_NOT_PRESENT))
         ELSE LET s1 == [Indexed(s, lun) EXCEPT !.b.scsi_blk_addr = s.b.bbb_cbw.lba,
                                                !.b.scsi_blk_len = s.b.bbb_cbw.n]
                  s2 == [s1 EXCEPT !.b.bbb_state = "BBB_DATA_IN",
                                   !.b.scsi_blk_addr = @ * BlkSize(s, lun, e),
                                   !.b.scsi_blk_len = @ * BlkSize(s, lun, e)]
              IN  IF _scsi_check_address_range(s1, lun, s1.b.scsi_blk_addr,
                                               s1.b.scsi_blk_len, e)
                  THEN Fails(Sense(s1, ILLEGAL_REQUEST, ADDRESS_OUT_OF_RANGE))
                  ELSE IF s.b.bbb_cbw.dlen # s2.b.scsi_blk_len
                  THEN Fails(Sense(s2, ILLEGAL_REQUEST, INVALID_CDB))
                  ELSE _scsi_process_read(
                           [s2 EXCEPT !.b.bbb_datalen = MSC_MEDIA_PACKET_SIZE], lun, e)
    ELSE _scsi_process_read([s EXCEPT !.b.bbb_datalen = MSC_MEDIA_PACKET_SIZE], lun, e)

\* Lines 608-639: _scsi_write10.
ScsiWrite10(s, lun, e) ==
    IF s.b.bbb_state = "BBB_IDLE"
    THEN IF s.b.bbb_cbw.flags = 128
         THEN Fails(Sense(s, ILLEGAL_REQUEST, INVALID_CDB))
         ELSE IF mem_ready(s.m) # 0
         THEN Fails(Sense(s, NOT_READY, MEDIUM_NOT_PRESENT))
         ELSE IF mem_protected(s.m, Stat) # 0
         THEN Fails(Sense(s, NOT_READY, WRITE_PROTECTED))
         ELSE LET s1 == [Indexed(s, lun) EXCEPT !.b.scsi_blk_addr = s.b.bbb_cbw.lba,
                                                !.b.scsi_blk_len = s.b.bbb_cbw.n]
                  s2 == [s1 EXCEPT !.b.scsi_blk_addr = @ * BlkSize(s, lun, e),
                                   !.b.scsi_blk_len = @ * BlkSize(s, lun, e)]
              IN  IF _scsi_check_address_range(s1, lun, s1.b.scsi_blk_addr,
                                               s1.b.scsi_blk_len, e)
                  THEN Fails(Sense(s1, ILLEGAL_REQUEST, ADDRESS_OUT_OF_RANGE))
                  ELSE IF s.b.bbb_cbw.dlen # s2.b.scsi_blk_len
                  THEN Fails(Sense(s2, ILLEGAL_REQUEST, INVALID_CDB))
                  ELSE Passes(usbd_ep_recev([s2 EXCEPT !.b.bbb_state = "BBB_DATA_OUT"],
                                            "data"))
    ELSE _scsi_process_write(s, lun, e)

\* Lines 508-529: _scsi_process_cmd.
_scsi_process_cmd(s, lun, e) ==
    LET c == s.b.bbb_cbw.cmd
    IN  IF c = "TEST_UNIT_READY" THEN ScsiTestUnitReady(s, lun)
        ELSE IF c = "REQUEST_SENSE" THEN Passes([s EXCEPT !.b.bbb_datalen = 0])
        ELSE IF c = "INQUIRY" THEN _scsi_inquiry(s, lun, e)
        ELSE IF c = "READ_CAPACITY_10" THEN _scsi_read_capacity10(s, lun, e)
        ELSE IF c = "READ_10" THEN ScsiRead10(s, lun, e)
        ELSE IF c = "WRITE_10" THEN ScsiWrite10(s, lun, e)
        ELSE Fails(Sense(s, ILLEGAL_REQUEST, INVALID_CDB))

\* Lines 442-467: _msc_bbb_cbw_decode.
_msc_bbb_cbw_decode(s, e) ==
    LET w == s.b.bbb_cbw
    IN  IF ~w.ok \/ w.lun > 1 \/ w.cblen < 1 \/ w.cblen > 16
        THEN _msc_bbb_abort([Fails(Sense(s, ILLEGAL_REQUEST, INVALID_CDB))
                               EXCEPT !.b.bbb_status = "ERROR"])
        ELSE LET r == _scsi_process_cmd(s, w.lun, e)
             IN  IF r.b.rc < 0 THEN _msc_bbb_abort(r)
                 ELSE IF r.b.bbb_state \notin {"BBB_DATA_IN", "BBB_DATA_OUT",
                                               "BBB_LAST_DATA_IN"}
                 THEN IF r.b.bbb_datalen > 0
                      THEN _msc_bbb_data_send(r)
                      ELSE _msc_bbb_csw_send(r, "CMD_PASSED")
                 ELSE r

\* A step of the transport leaves the driver and the other layers alone.
BbbFrame ==
    UNCHANGED <<Stat, Timer1, Timer2, CardType, cs, fclk, pc, stack, loc, op, ret, obs,
                ticks, g_dma_status, chan, spi_dma, rbne, trans, isr, Timeout_ms, card,
                test, enc, dm, ctx, dobs>>

BbbPair == [b |-> bbb, m |-> msc]

Becomes(r) == bbb' = r.b /\ msc' = r.m

\* Lines 340-344 and 390-399: _msc_init with _msc_bbb_init, once the layer
\* is set up.
_msc_init ==
    /\ msc.step = "run"
    /\ bbb.step = "boot"
    /\ bbb' = [bbb EXCEPT !.step = "run", !.bbb_state = "BBB_IDLE",
                          !.bbb_status = "NORMAL", !.ep_out.rx = "cbw"]
    /\ UNCHANGED msc
    /\ BbbFrame

\* Lines 427-440: _msc_bbb_data_out, called when the OUT endpoint has
\* received what it was armed for: a wrapper in BBB_IDLE, data otherwise.
_msc_bbb_data_out ==
    /\ bbb.step = "run"
    /\ bbb.ep_out.rx # "none"
    /\ ~bbb.ep_out.stalled
    /\ \E e \in Envs :
         LET s == [BbbPair EXCEPT !.b.ep_out.rx = "none"]
         IN  IF bbb.bbb_state = "BBB_IDLE"
             THEN /\ bbb.cmds < MaxCmds
                  /\ \E w \in Cbws :
                       Becomes(_msc_bbb_cbw_decode(
                           [s EXCEPT !.b.bbb_cbw = w, !.b.cmds = @ + 1, !.b.rc = 0,
                                     !.b.csw = "none", !.b.failed = FALSE,
                                     !.b.called = FALSE, !.b.sector = 0,
                                     !.b.before = 0, !.b.done = 0,
                                     !.b.cleared = FALSE, !.b.req_ret = "none"], e))
             ELSE IF bbb.bbb_state = "BBB_DATA_OUT"
             THEN LET r == _scsi_process_cmd(s, bbb.bbb_cbw.lun, e)
                  IN  Becomes(IF r.b.rc < 0 THEN _msc_bbb_csw_send(r, "CMD_FAILED")
                              ELSE r)
             ELSE Becomes(s)
    /\ BbbFrame

\* Lines 411-425: _msc_bbb_data_in, called when the IN endpoint has sent
\* what it was given.
_msc_bbb_data_in ==
    /\ bbb.step = "run"
    /\ bbb.ep_in.tx # "none"
    /\ ~bbb.ep_in.stalled
    /\ \E e \in Envs :
         LET s == [BbbPair EXCEPT !.b.ep_in.tx = "none"]
         IN  IF bbb.bbb_state = "BBB_DATA_IN"
             THEN LET r == _scsi_process_cmd(s, bbb.bbb_cbw.lun, e)
                  IN  Becomes(IF r.b.rc < 0 THEN _msc_bbb_csw_send(r, "CMD_FAILED")
                              ELSE r)
             ELSE IF bbb.bbb_state \in {"BBB_SEND_DATA", "BBB_LAST_DATA_IN"}
             THEN Becomes(_msc_bbb_csw_send(s, "CMD_PASSED"))
             ELSE Becomes(s)
    /\ BbbFrame

\* The requests of the host that concern the mass-storage function:
\* CLEAR_FEATURE(ENDPOINT_HALT) on one of its two endpoints, wIndex being the
\* endpoint address, and the class request Bulk-Only Reset on its interface.
Requests ==
    {[recipient |-> "EP", bRequest |-> "CLEAR_FEATURE", wIndex |-> MSC_IN_EP],
     [recipient |-> "EP", bRequest |-> "CLEAR_FEATURE", wIndex |-> MSC_OUT_EP],
     [recipient |-> "ITF", bRequest |-> "REQ_BBB_RESET", wIndex |-> MSC_INTERFACE]}

\* Lines 352-384: _msc_req_handler.
_msc_req_handler(s, req) ==
    IF req.recipient = "ITF"
    THEN IF req.bRequest = "REQ_BBB_RESET"
         THEN [usbd_ep_recev([s EXCEPT !.b.bbb_state = "BBB_IDLE",
                                       !.b.bbb_status = "RECOVERY"], "cbw")
                 EXCEPT !.b.req_ret = "USBD_OK"]
         ELSE [s EXCEPT !.b.req_ret = "USBD_FAIL"]
    ELSE IF req.recipient = "EP" /\ req.bRequest = "CLEAR_FEATURE"
    THEN [_msc_bbb_clrfeature(s, req.wIndex % 256) EXCEPT !.b.req_ret = "USBD_OK"]
    ELSE [s EXCEPT !.b.req_ret = "USBD_FAIL"]

\* Lines 159-180: the dispatch of _req_handler on the low byte of wIndex,
\* with the mass-storage function enabled; the HID handlers leave the
\* transport alone.
Dispatch(s, req) ==
    LET interface == req.wIndex % 256
    IN  IF interface = MSC_INTERFACE THEN _msc_req_handler(s, req)
        ELSE IF interface \in {0, 1} THEN [s EXCEPT !.b.req_ret = "HID"]
        ELSE [s EXCEPT !.b.req_ret = "USBD_FAIL"]

\* The host clears the halt of a stalled endpoint, or resets the transport
\* after a failed command: the device core clears the halt and hands the
\* request to _req_handler.
_req_handler ==
    /\ bbb.step = "run"
    /\ \E req \in Requests :
         /\ \/ req.wIndex = MSC_IN_EP /\ bbb.ep_in.stalled
            \/ req.wIndex = MSC_OUT_EP /\ bbb.ep_out.stalled
            \/ req.wIndex = MSC_INTERFACE /\ bbb.failed
         /\ LET s == IF req.wIndex = MSC_IN_EP
                     THEN [BbbPair EXCEPT !.b.ep_in.stalled = FALSE,
                                          !.b.cleared = bbb.failed]
                     ELSE IF req.wIndex = MSC_OUT_EP
                     THEN [BbbPair EXCEPT !.b.ep_out.stalled = FALSE,
                                          !.b.cleared = bbb.failed]
                     ELSE BbbPair
            IN  Becomes(Dispatch(s, req))
    /\ BbbFrame

NextBbb ==
    \/ msc_mem_pre_init
    \/ _msc_init
    \/ _msc_bbb_data_out
    \/ _msc_bbb_data_in
    \/ _req_handler

\* The driver after main() called sd_init: a block-addressed card
\* initialized, or none.
InitBbb == InitMsc /\ CardType \in {0, CT_SD2 + CT_BLOCK}

SpecBbb == InitBbb /\ [][NextBbb]_vars
\* C34: for a READ(10) or WRITE(10) of N blocks at logical block address L
\* on LUN 0, the block address of every mem_read / mem_write call, which is
\* the sector argument of sd_read_blocks / sd_write_blocks, is L plus the
\* number of blocks the earlier chunks of the command transferred.
C34_SectorIsLbaPlusDone ==
    (bbb.called /\ bbb.bbb_cbw.lun < MEM_LUN_NUM)
        => bbb.sector = bbb.bbb_cbw.lba + bbb.before
\* C38: every LUN that passes the validation of the command wrapper and
\* reaches a SCSI handler is smaller than MEM_LUN_NUM: no handler indexes a
\* per-LUN array (mem_inquiry_data, mem_block_size, mem_block_len,
\* scsi_blk_size, scsi_blk_nbr) past its end.
C38_LunInBounds == ~bbb.oob

\* C39: once the host has cleared the halt of a stalled mass-storage
\* endpoint after a failed command, the request has reached the MSC handler
\* through _req_handler (which returned USBD_OK) and the transport is not
\* left in BBB_DATA_IN or BBB_DATA_OUT.
C39_ClearFeatureRecovers ==
    bbb.cleared => /\ bbb.req_ret = "USBD_OK"
                   /\ bbb.bbb_state \notin {"BBB_DATA_IN", "BBB_DATA_OUT"}
(***************************************************************************)
(* What Success tells the task.                                            *)
(***************************************************************************)
\* C35: with no transfer started while the status is Busy, whenever task
\* context (no handler running) reads Success, both DMA channels and the SPI
\* DMA requests are off and the channel that carries the caller's buffer in
\* the most recent start has moved all its units: Success is never stored
\* for a transfer that has not completed.
C35_SuccessMeansDone ==
    (hal_dma_get_status = "SUCCESS" /\ isr = "none")
        => /\ ~chan.tx.en
           /\ ~chan.rx.en
           /\ spi_dma = {}
           /\ chan.tx.mem \in Buffers => chan.tx.cnt = 0
           /\ chan.rx.mem \in Buffers => chan.rx.cnt = 0

\* A second transfer started after the first one's Success has completed in
\* its turn: Success stands for the units of the most recent start.
C35_Witness ==
    /\ g_dma_status = "SUCCESS"
    /\ isr = "none"
    /\ chan.tx.mem = "bufB"
    /\ chan.tx.cnt = 0
    /\ ~chan.tx.en
    /\ dobs.call = "hal_write"
(***************************************************************************)
(* The budget of the negotiation.                                          *)
(***************************************************************************)
\* The position sd_init itself stands at: the task's own position, or the
\* one its outermost pending send_cmd returns to.
InitPosition == IF stack = <<>> THEN pc ELSE stack[Len(stack)].pc

\* sd_init between its store Timer1 = 1000 (line 223) and the end of the
\* negotiation.
InNegotiation ==
    /\ op = "init"
    /\ ret = -1
    /\ InitPosition \notin {"idle", "init_cmd0", "init_end"}

\* C36: from the arming of Timer1 by sd_init until the negotiation ends,
\* Timer1 is written only by the tick interrupt's decrement: no nested
\* send_cmd, select or ready-wait arms it again (they arm Timer2 only), and
\* the remaining budget never increases.
C36_BudgetOnlyTicksDown ==
    [][InNegotiation /\ Timer1' # Timer1
          => /\ TIMER3_IRQHandler \/ TickUntilExpiry
             /\ Timer1' < Timer1]_vars

\* The negotiation inside the CMD55 of an ACMD41, its ready-wait having
\* armed Timer2, with the budget partly used.
C36_Witness ==
    /\ InNegotiation
    /\ Len(stack) = 2
    /\ Timer1 \in 1 .. InitTimeoutMs - 1
    /\ Timer2 > 0
(***************************************************************************)
(* The values of the driver status.                                        *)
(***************************************************************************)
\* C37: in every reachable state the driver status is 0 or exactly
\* NotInitialized: no operation sets NoMedium or WriteProtected, so
\* sd_write_blocks never returns WriteProtected and sd_init never takes its
\* early return for a missing medium (it always goes on to the bus).
C37_StatusValues ==
    /\ Stat \in {0, STA_NOINIT}
    /\ ~(op = "write" /\ ret = RES_WRPRT)
    /\ (op = "init" /\ pc = "idle") => obs.bus

\* A write served by a card that sd_init brought up: the status is 0 and
\* the write gate let the request through.
C37_Witness ==
    /\ Stat = 0
    /\ op = "write"
    /\ pc = "idle"
    /\ ret = RES_OK
\* ---------------------------------------------------------------------
\* DisplayManager (display_manager.cpp): handleUsbPacket fills the
\* framebuffer m_usb_buffer_idx from the host's packets and hands a complete
\* one to processDrawTasks, which draws framebuffer m_dma_buffer_idx.
\* Lengths are counted in units; a quadrant takes QuadrantUnits of them.
\* ---------------------------------------------------------------------
MaxPackets    == 6
QuadrantUnits == 2

\* Lines 42-49: total_bytes_expected of the transfer announced; a partial
\* update of an empty region expects nothing.
Expected(task) ==
    IF task = "quadrant" THEN QuadrantUnits
    ELSE IF task = "partial" THEN 1
    ELSE 0

\* The packets of the host: a transfer announced (a quadrant, a rectangle,
\* an empty rectangle) or image data of n units, n = 3 being more than any
\* transfer expects.
Packets ==
    {[command |-> "START_QUADRANT_TRANSFER", n |-> 0, task |-> "quadrant"],
     [command |-> "DRAW_RECT", n |-> 0, task |-> "partial"],
     [command |-> "DRAW_RECT", n |-> 0, task |-> "empty"]}
    \cup {[command |-> "IMAGE_DATA", n |-> k, task |-> "none"] : k \in {1, 3}}

DmFrame ==
    UNCHANGED <<Stat, Timer1, Timer2, CardType, cs, fclk, pc, stack, loc, op, ret, obs,
                ticks, g_dma_status, chan, spi_dma, rbne, trans, isr, Timeout_ms, card,
                test, msc, enc, bbb, ctx, dobs>>

\* Lines 38-76: an IMAGE_DATA packet of n units.  clobbered records a copy
\* into the framebuffer that is handed off and not yet drawn.
ImageData(d, n) ==
    LET total    == Expected(d.m_current_rx_task)
        data_len == IF total - d.m_bytes_received < n
                    THEN total - d.m_bytes_received ELSE n
        copied   == d.m_bytes_received + data_len <= total
        received == IF copied THEN d.m_bytes_received + data_len
                    ELSE d.m_bytes_received
        e        == [d EXCEPT !.m_bytes_received = received,
                              !.clobbered = @ \/ /\ copied
                                                 /\ data_len > 0
                                                 /\ d.m_task_is_ready
                                                 /\ d.m_usb_buffer_idx = d.m_dma_buffer_idx]
        f        == IF ~d.m_task_is_ready
                    THEN [e EXCEPT !.m_dma_buffer_idx = d.m_usb_buffer_idx,
                                   !.m_draw_task = d.m_current_rx_task,
                                   !.m_task_is_ready = TRUE]
                    ELSE e
    IN  IF total = 0 THEN d
        ELSE IF received >= total
        THEN [f EXCEPT !.m_usb_buffer_idx = 1 - @,
                       !.m_current_rx_task = "none",
                       !.m_bytes_received = 0]
        ELSE e

\* Lines 18-78: handleUsbPacket, run to its end whenever a packet arrives,
\* also while processDrawTasks is drawing.
handleUsbPacket ==
    /\ dm.packets < MaxPackets
    /\ \E p \in Packets :
         dm' = [(IF p.command = "IMAGE_DATA" THEN ImageData(dm, p.n)
                 ELSE [dm EXCEPT !.m_current_rx_task = p.task, !.m_bytes_received = 0])
                  EXCEPT !.packets = dm.packets + 1]
    /\ DmFrame

\* Lines 80-97: processDrawTasks finds a task ready and starts to draw
\* framebuffer m_dma_buffer_idx.
ProcessDrawBegin ==
    /\ dm.pc = "idle"
    /\ dm.m_task_is_ready
    /\ dm' = [dm EXCEPT !.pc = "draw"]
    /\ DmFrame

\* Line 99: the draw is done, m_task_is_ready = false.
ProcessDrawEnd ==
    /\ dm.pc = "draw"
    /\ dm' = [dm EXCEPT !.pc = "idle", !.m_task_is_ready = FALSE, !.clobbered = FALSE]
    /\ DmFrame

NextDm == handleUsbPacket \/ ProcessDrawBegin \/ ProcessDrawEnd

SpecDm == Init /\ [][NextDm]_vars

\* C40: a framebuffer handed off for drawing (m_task_is_ready set, index
\* m_dma_buffer_idx) is not written by handleUsbPacket until processDrawTasks
\* has drawn it and cleared m_task_is_ready, whatever the interleaving of
\* the two.
C40_HandedOffBufferUntouched == ~dm.clobbered

====
